---- MODULE Spec2Model ----
(***************************************************************************)
(* A model of the 6502 interpreter of this repository: the decode table    *)
(* (src/src/fetch_decode.rs), the memory bus and the CPU's step()          *)
(* (src/src/lib.rs).                                                       *)
(*                                                                         *)
(* Representation.  Bytes are 0..255 and words 0..65535; every Rust        *)
(* operator is modelled by what it computes at that width.  The 2 KiB      *)
(* array cpu_ram and the vector prg_rom are represented by their non-zero  *)
(* cells (a function from the indices holding a non-zero byte to that      *)
(* byte); RamAt / PrgAt read a cell, RamStore writes one.  A Rust panic    *)
(* (panic!, todo!, an index out of range, an arithmetic overflow in a      *)
(* build with overflow checks) is the value Err(reason), propagated by     *)
(* Bind exactly as the panic unwinds through the callers.                  *)
(***************************************************************************)
EXTENDS Integers, Sequences, FiniteSets, TLC

VARIABLES
    reg_a,            \* Cpu.reg_a : u8
    reg_x,            \* Cpu.reg_x : u8
    reg_y,            \* Cpu.reg_y : u8
    stack_ptr,        \* Cpu.stack_ptr : u8
    pc,               \* Cpu.pc : u16
    status,           \* Cpu.status : Flags (its bits, a u8)
    cpu_ram,          \* Bus.cpu_ram : [u8; 0x800], by its non-zero cells
    prg_rom,          \* Bus.rom.prg_rom : Vec<u8>, [len, cells]
    overflow_checks,  \* the build: TRUE when `+`/`-`/`+=` panic on overflow
    fault,            \* "none", or the panic that ended the process
    last              \* what the last operation was, and the CPU it started from

cpu_vars == <<reg_a, reg_x, reg_y, stack_ptr, pc, status, cpu_ram>>
vars == <<reg_a, reg_x, reg_y, stack_ptr, pc, status, cpu_ram, prg_rom,
          overflow_checks, fault, last>>

---------------------------------------------------------------------------
(* Flags (bitflags!) *)
NEGATIVE == 128
OVERFLOW == 64
ALWAYSON == 32
UNUSED == 32
BREAK == 16
DECIMAL == 8
INTERRUPTDISABLE == 4
ZERO == 2
CARRY == 1

STACK_RESET == 253
STACK_START == 256
RAM_SIZE == 2048

Byte == 0..255
Word == 0..65535

---------------------------------------------------------------------------
(* Integer operations at their Rust width *)

RECURSIVE BitAnd(_, _)
BitAnd(a, b) ==
    IF a = 0 \/ b = 0 THEN 0
    ELSE (a % 2) * (b % 2) + 2 * BitAnd(a \div 2, b \div 2)

RECURSIVE BitXor(_, _)
BitXor(a, b) ==
    IF a = 0 /\ b = 0 THEN 0
    ELSE ((a + b) % 2) + 2 * BitXor(a \div 2, b \div 2)

RECURSIVE BitOr(_, _)
BitOr(a, b) ==
    IF a = 0 /\ b = 0 THEN 0
    ELSE (IF a % 2 = 1 \/ b % 2 = 1 THEN 1 ELSE 0) + 2 * BitOr(a \div 2, b \div 2)

(* -v in place of !v *)
Not8_negate(v) == (256 - v) % 256

Not8(v) == 255 - v                        \* !v on a u8
Shl8(v) == (v * 2) % 256                  \* v << 1 on a u8
Shr8(v) == v \div 2                       \* v >> 1 on a u8
wrapping_add8_no_wrap(a, b) == a + b      \* the sum without the wrap
wrapping_add8(a, b) == (a + b) % 256      \* u8::wrapping_add
wrapping_sub8(a, b) == (a - b + 256) % 256
wrapping_add16(a, b) == (a + b) % 65536   \* u16::wrapping_add
AsI8(v) == IF v >= 128 THEN v - 256 ELSE v          \* v as i8 (as i16)
wrapping_add_signed(a, d) == (a + d + 65536) % 65536 \* u16::wrapping_add_signed
AsU8(v) == v % 256                        \* v as u8, from a wider unsigned
MakeWord(high, low) == high * 256 + low   \* ((high as u16) << 8) | (low as u16)

(* Flags::contains / insert / remove / set, for a single-bit flag *)
contains(st, flag) == BitAnd(st, flag) = flag
insert(st, flag) == BitOr(st, flag)
remove(st, flag) == BitAnd(st, 255 - flag)
set(st, flag, value) == IF value THEN insert(st, flag) ELSE remove(st, flag)

---------------------------------------------------------------------------
(* Results: a value, or the panic that replaced it *)

Ok(v) == [fault |-> "none", val |-> v]
Err(reason) == [fault |-> reason, val |-> 0]
(* `r` is evaluated once, then a panic is passed on or F applied to the value *)
Bind(r, F(_)) ==
    CHOOSE out \in { IF x.fault # "none" THEN x ELSE F(x.val) : x \in {r} } : TRUE

(* `a + b` on u16: panics on overflow when the build checks, wraps otherwise *)
AddU16(a, b) ==
    IF a + b > 65535 /\ overflow_checks THEN Err("attempt to add with overflow")
    ELSE Ok((a + b) % 65536)

(* `a - b` on u16 *)
SubU16(a, b) ==
    IF a - b < 0 /\ overflow_checks THEN Err("attempt to subtract with overflow")
    ELSE Ok((a - b + 65536) % 65536)

---------------------------------------------------------------------------
(* fetch_decode.rs *)

info(size, cycles) ==
    [cycles |-> cycles, size |-> size, cycles_extra |-> 0, cycles_extra2 |-> 0]

info_extra(size, cycles, cycles_extra) ==
    [cycles |-> cycles, size |-> size, cycles_extra |-> cycles_extra,
     cycles_extra2 |-> 0]

info_extra2(size, cycles, cycles_extra, cycles_extra2) ==
    [cycles |-> cycles, size |-> size, cycles_extra |-> cycles_extra,
     cycles_extra2 |-> cycles_extra2]

decode(val) ==
    CASE val = \h69 -> Ok(<<"ADC", "Immediate", info(2, 2)>>)
      [] val = \h65 -> Ok(<<"ADC", "ZeroPage", info(2, 3)>>)
      [] val = \h75 -> Ok(<<"ADC", "ZeroPageX", info(2, 4)>>)
      [] val = \h6D -> Ok(<<"ADC", "Absolute", info(2, 4)>>)
      [] val = \h7D -> Ok(<<"ADC", "AbsoluteX", info_extra(2, 4, 1)>>)
      [] val = \h79 -> Ok(<<"ADC", "AbsoluteY", info_extra(2, 4, 1)>>)
      [] val = \h61 -> Ok(<<"ADC", "IndexedIndirect", info(2, 6)>>)
      [] val = \h71 -> Ok(<<"ADC", "IndirectIndexed", info_extra(2, 5, 1)>>)
      [] val = \h29 -> Ok(<<"AND", "Immediate", info(2, 2)>>)
      [] val = \h25 -> Ok(<<"AND", "ZeroPage", info(2, 3)>>)
      [] val = \h35 -> Ok(<<"AND", "ZeroPageX", info(2, 4)>>)
      [] val = \h2D -> Ok(<<"AND", "Absolute", info(3, 4)>>)
      [] val = \h3D -> Ok(<<"AND", "AbsoluteX", info_extra(3, 4, 1)>>)
      [] val = \h39 -> Ok(<<"AND", "AbsoluteY", info_extra(3, 4, 1)>>)
      [] val = \h21 -> Ok(<<"AND", "IndexedIndirect", info(2, 6)>>)
      [] val = \h31 -> Ok(<<"AND", "IndirectIndexed", info_extra(2, 5, 1)>>)
      [] val = \h0A -> Ok(<<"ASL", "Accumulator", info(1, 2)>>)
      [] val = \h06 -> Ok(<<"ASL", "ZeroPage", info(2, 5)>>)
      [] val = \h16 -> Ok(<<"ASL", "ZeroPageX", info(2, 6)>>)
      [] val = \h0E -> Ok(<<"ASL", "Absolute", info(3, 6)>>)
      [] val = \h1E -> Ok(<<"ASL", "AbsoluteX", info(3, 7)>>)
      [] val = \h90 -> Ok(<<"BCC", "Relative", info_extra2(2, 2, 1, 1)>>)
      [] val = \hB0 -> Ok(<<"BCS", "Relative", info_extra2(2, 2, 1, 1)>>)
      [] val = \hF0 -> Ok(<<"BEQ", "Relative", info_extra2(2, 2, 1, 1)>>)
      [] val = \h24 -> Ok(<<"BIT", "ZeroPage", info(2, 3)>>)
      [] val = \h2C -> Ok(<<"BIT", "Absolute", info(3, 4)>>)
      [] val = \h30 -> Ok(<<"BMI", "Relative", info_extra2(2, 2, 1, 1)>>)
      [] val = \hD0 -> Ok(<<"BNE", "Relative", info_extra2(2, 2, 1, 1)>>)
      [] val = \h10 -> Ok(<<"BPL", "Relative", info_extra2(2, 2, 1, 1)>>)
      [] val = \h00 -> Ok(<<"BRK", "Implicit", info(1, 7)>>)
      [] val = \h50 -> Ok(<<"BVC", "Relative", info_extra2(2, 2, 1, 1)>>)
      [] val = \h70 -> Ok(<<"BVS", "Relative", info_extra2(2, 2, 1, 1)>>)
      [] val = \h18 -> Ok(<<"CLC", "Implicit", info(1, 2)>>)
      [] val = \hD8 -> Ok(<<"CLD", "Implicit", info(1, 2)>>)
      [] val = \h58 -> Ok(<<"CLI", "Implicit", info(1, 2)>>)
      [] val = \hB8 -> Ok(<<"CLV", "Implicit", info(1, 2)>>)
      [] val = \hC9 -> Ok(<<"CMP", "Immediate", info(2, 2)>>)
      [] val = \hC5 -> Ok(<<"CMP", "ZeroPage", info(2, 3)>>)
      [] val = \hD5 -> Ok(<<"CMP", "ZeroPageX", info(2, 4)>>)
      [] val = \hCD -> Ok(<<"CMP", "Absolute", info(3, 4)>>)
      [] val = \hDD -> Ok(<<"CMP", "AbsoluteX", info_extra(3, 4, 1)>>)
      [] val = \hD9 -> Ok(<<"CMP", "AbsoluteY", info_extra(3, 4, 1)>>)
      [] val = \hC1 -> Ok(<<"CMP", "IndexedIndirect", info(2, 6)>>)
      [] val = \hD1 -> Ok(<<"CMP", "IndirectIndexed", info_extra(2, 5, 1)>>)
      [] val = \hE0 -> Ok(<<"CPX", "Immediate", info(2, 2)>>)
      [] val = \hE4 -> Ok(<<"CPX", "ZeroPage", info(2, 3)>>)
      [] val = \hEC -> Ok(<<"CPX", "Absolute", info(2, 4)>>)
      [] val = \hC0 -> Ok(<<"CPY", "Immediate", info(2, 2)>>)
      [] val = \hC4 -> Ok(<<"CPY", "ZeroPage", info(2, 3)>>)
      [] val = \hCC -> Ok(<<"CPY", "Absolute", info(2, 4)>>)
      [] val = \hC6 -> Ok(<<"DEC", "ZeroPage", info(2, 5)>>)
      [] val = \hD6 -> Ok(<<"DEC", "ZeroPageX", info(2, 6)>>)
      [] val = \hCE -> Ok(<<"DEC", "Absolute", info(3, 6)>>)
      [] val = \hDE -> Ok(<<"DEC", "AbsoluteX", info(3, 7)>>)
      [] val = \hCA -> Ok(<<"DEX", "Implicit", info(1, 2)>>)
      [] val = \h88 -> Ok(<<"DEY", "Implicit", info(1, 2)>>)
      [] val = \h49 -> Ok(<<"EOR", "Immediate", info(2, 2)>>)
      [] val = \h45 -> Ok(<<"EOR", "ZeroPage", info(2, 3)>>)
      [] val = \h55 -> Ok(<<"EOR", "ZeroPageX", info(2, 4)>>)
      [] val = \h4D -> Ok(<<"EOR", "Absolute", info(3, 4)>>)
      [] val = \h5D -> Ok(<<"EOR", "AbsoluteX", info_extra(3, 4, 1)>>)
      [] val = \h59 -> Ok(<<"EOR", "AbsoluteY", info_extra(3, 4, 1)>>)
      [] val = \h41 -> Ok(<<"EOR", "IndexedIndirect", info(2, 6)>>)
      [] val = \h51 -> Ok(<<"EOR", "IndirectIndexed", info_extra(2, 5, 1)>>)
      [] val = \hE6 -> Ok(<<"INC", "ZeroPage", info(2, 5)>>)
      [] val = \hF6 -> Ok(<<"INC", "ZeroPageX", info(2, 6)>>)
      [] val = \hEE -> Ok(<<"INC", "Absolute", info(3, 6)>>)
      [] val = \hFE -> Ok(<<"INC", "AbsoluteX", info(3, 7)>>)
      [] val = \hE8 -> Ok(<<"INX", "Implicit", info(1, 2)>>)
      [] val = \hC8 -> Ok(<<"INY", "Implicit", info(1, 2)>>)
      [] val = \h4C -> Ok(<<"JMP", "Absolute", info(3, 3)>>)
      [] val = \h6C -> Ok(<<"JMP", "Indirect", info(3, 5)>>)
      [] val = \h20 -> Ok(<<"JSR", "Absolute", info(3, 6)>>)
      [] val = \hA9 -> Ok(<<"LDA", "Immediate", info(2, 2)>>)
      [] val = \hA5 -> Ok(<<"LDA", "ZeroPage", info(2, 3)>>)
      [] val = \hB5 -> Ok(<<"LDA", "ZeroPageX", info(2, 4)>>)
      [] val = \hAD -> Ok(<<"LDA", "Absolute", info(3, 4)>>)
      [] val = \hBD -> Ok(<<"LDA", "AbsoluteX", info_extra(3, 4, 1)>>)
      [] val = \hB9 -> Ok(<<"LDA", "AbsoluteY", info_extra(3, 4, 1)>>)
      [] val = \hA1 -> Ok(<<"LDA", "IndexedIndirect", info(2, 6)>>)
      [] val = \hB1 -> Ok(<<"LDA", "IndirectIndexed", info_extra(2, 5, 1)>>)
      [] val = \hA2 -> Ok(<<"LDX", "Immediate", info(2, 2)>>)
      [] val = \hA6 -> Ok(<<"LDX", "ZeroPage", info(2, 3)>>)
      [] val = \hB6 -> Ok(<<"LDX", "ZeroPageY", info(2, 4)>>)
      [] val = \hAE -> Ok(<<"LDX", "Absolute", info(3, 4)>>)
      [] val = \hBE -> Ok(<<"LDX", "AbsoluteY", info_extra(3, 4, 1)>>)
      [] val = \hA0 -> Ok(<<"LDY", "Immediate", info(2, 2)>>)
      [] val = \hA4 -> Ok(<<"LDY", "ZeroPage", info(2, 3)>>)
      [] val = \hB4 -> Ok(<<"LDY", "ZeroPageX", info(2, 4)>>)
      [] val = \hAC -> Ok(<<"LDY", "Absolute", info(3, 4)>>)
      [] val = \hBC -> Ok(<<"LDY", "AbsoluteX", info_extra(3, 4, 1)>>)
      [] val = \h4A -> Ok(<<"LSR", "Accumulator", info(1, 2)>>)
      [] val = \h46 -> Ok(<<"LSR", "ZeroPage", info(2, 5)>>)
      [] val = \h56 -> Ok(<<"LSR", "ZeroPageX", info(2, 6)>>)
      [] val = \h4E -> Ok(<<"LSR", "Absolute", info(3, 6)>>)
      [] val = \h5E -> Ok(<<"LSR", "AbsoluteX", info(3, 7)>>)
      [] val = \hEA -> Ok(<<"NOP", "Implicit", info(1, 2)>>)
      [] val = \h09 -> Ok(<<"ORA", "Immediate", info(2, 2)>>)
      [] val = \h05 -> Ok(<<"ORA", "ZeroPage", info(2, 3)>>)
      [] val = \h15 -> Ok(<<"ORA", "ZeroPageX", info(2, 4)>>)
      [] val = \h0D -> Ok(<<"ORA", "Absolute", info(3, 4)>>)
      [] val = \h1D -> Ok(<<"ORA", "AbsoluteX", info_extra(3, 4, 1)>>)
      [] val = \h19 -> Ok(<<"ORA", "AbsoluteY", info_extra(3, 4, 1)>>)
      [] val = \h01 -> Ok(<<"ORA", "IndexedIndirect", info(2, 6)>>)
      [] val = \h11 -> Ok(<<"ORA", "IndirectIndexed", info_extra(2, 5, 1)>>)
      [] val = \h48 -> Ok(<<"PHA", "Implicit", info(1, 3)>>)
      [] val = \h08 -> Ok(<<"PHP", "Implicit", info(1, 3)>>)
      [] val = \h68 -> Ok(<<"PLA", "Implicit", info(1, 4)>>)
      [] val = \h28 -> Ok(<<"PLP", "Implicit", info(1, 4)>>)
      [] val = \h2A -> Ok(<<"ROL", "Accumulator", info(1, 2)>>)
      [] val = \h26 -> Ok(<<"ROL", "ZeroPage", info(2, 5)>>)
      [] val = \h36 -> Ok(<<"ROL", "ZeroPageX", info(2, 6)>>)
      [] val = \h2E -> Ok(<<"ROL", "Absolute", info(3, 6)>>)
      [] val = \h3E -> Ok(<<"ROL", "AbsoluteX", info(3, 7)>>)
      [] val = \h6A -> Ok(<<"ROR", "Accumulator", info(1, 2)>>)
      [] val = \h66 -> Ok(<<"ROR", "ZeroPage", info(2, 5)>>)
      [] val = \h76 -> Ok(<<"ROR", "ZeroPageX", info(2, 6)>>)
      [] val = \h6E -> Ok(<<"ROR", "Absolute", info(3, 6)>>)
      [] val = \h7E -> Ok(<<"ROR", "AbsoluteX", info(3, 7)>>)
      [] val = \h40 -> Ok(<<"RTI", "Implicit", info(1, 6)>>)
      [] val = \h60 -> Ok(<<"RTS", "Implicit", info(1, 6)>>)
      [] val = \hE9 -> Ok(<<"SBC", "Immediate", info(2, 2)>>)
      [] val = \hE5 -> Ok(<<"SBC", "ZeroPage", info(2, 3)>>)
      [] val = \hF5 -> Ok(<<"SBC", "ZeroPageX", info(2, 4)>>)
      [] val = \hED -> Ok(<<"SBC", "Absolute", info(3, 4)>>)
      [] val = \hFD -> Ok(<<"SBC", "AbsoluteX", info_extra(3, 4, 1)>>)
      [] val = \hF9 -> Ok(<<"SBC", "AbsoluteY", info_extra(3, 4, 1)>>)
      [] val = \hE1 -> Ok(<<"SBC", "IndexedIndirect", info(2, 6)>>)
      [] val = \hF1 -> Ok(<<"SBC", "IndirectIndexed", info_extra(2, 5, 1)>>)
      [] val = \h38 -> Ok(<<"SEC", "Implicit", info(1, 2)>>)
      [] val = \hF8 -> Ok(<<"SED", "Implicit", info(1, 2)>>)
      [] val = \h78 -> Ok(<<"SEI", "Implicit", info(1, 2)>>)
      [] val = \h85 -> Ok(<<"STA", "ZeroPage", info(2, 3)>>)
      [] val = \h95 -> Ok(<<"STA", "ZeroPageX", info(2, 4)>>)
      [] val = \h8D -> Ok(<<"STA", "Absolute", info(3, 4)>>)
      [] val = \h9D -> Ok(<<"STA", "AbsoluteX", info(3, 5)>>)
      [] val = \h99 -> Ok(<<"STA", "AbsoluteY", info(3, 5)>>)
      [] val = \h81 -> Ok(<<"STA", "IndexedIndirect", info(2, 6)>>)
      [] val = \h91 -> Ok(<<"STA", "IndirectIndexed", info(2, 6)>>)
      [] val = \h86 -> Ok(<<"STX", "ZeroPage", info(2, 3)>>)
      [] val = \h96 -> Ok(<<"STX", "ZeroPageY", info(2, 4)>>)
      [] val = \h8E -> Ok(<<"STX", "Absolute", info(3, 4)>>)
      [] val = \h84 -> Ok(<<"STY", "ZeroPage", info(2, 3)>>)
      [] val = \h94 -> Ok(<<"STY", "ZeroPageX", info(2, 4)>>)
      [] val = \h8C -> Ok(<<"STY", "Absolute", info(3, 4)>>)
      [] val = \hAA -> Ok(<<"TAX", "Implicit", info(1, 2)>>)
      [] val = \hA8 -> Ok(<<"TAY", "Implicit", info(1, 2)>>)
      [] val = \hBA -> Ok(<<"TSX", "Implicit", info(1, 2)>>)
      [] val = \h8A -> Ok(<<"TXA", "Implicit", info(1, 2)>>)
      [] val = \h9A -> Ok(<<"TXS", "Implicit", info(1, 2)>>)
      [] val = \h98 -> Ok(<<"TYA", "Implicit", info(1, 2)>>)
      [] OTHER -> Err("Invalid Opcode")

---------------------------------------------------------------------------
(* Bus *)

(* cpu_ram[i] and prg_rom[i] of the represented arrays *)
RamAt(ram, i) == IF i \in DOMAIN ram THEN ram[i] ELSE 0
PrgAt(rom, i) == IF i \in DOMAIN rom.cells THEN rom.cells[i] ELSE 0

(* cpu_ram[i] = val *)
RamStore(ram, i, val) ==
    IF val = 0
    THEN [k \in DOMAIN ram \ {i} |-> ram[k]]
    ELSE [k \in DOMAIN ram \cup {i} |-> IF k = i THEN val ELSE ram[k]]

(* a read that folds a 32 KiB image onto its first 16 KiB as well *)
read_always_mirrored(c, pos) ==
    IF pos <= \h1FFF THEN Ok(RamAt(c.cpu_ram, BitAnd(pos, \h07FF)))
    ELSE IF pos <= \h3FFF THEN Err("not yet implemented: PPU")
    ELSE IF pos >= \h8000 THEN Ok(PrgAt(prg_rom, (pos - \h8000) % \h4000))
    ELSE Ok(0)

(* a read that answers 0 in the PPU window *)
read_ppu_zero(c, pos) ==
    IF pos <= \h1FFF THEN Ok(RamAt(c.cpu_ram, BitAnd(pos, \h07FF)))
    ELSE IF pos >= \h8000 THEN
        LET pos0 == pos - \h8000
            pos1 == IF prg_rom.len = \h4000 THEN pos0 % \h4000 ELSE pos0
        IN  IF pos1 < prg_rom.len THEN Ok(PrgAt(prg_rom, pos1))
            ELSE Err("index out of bounds")
    ELSE Ok(0)

(* Bus::read.  c is the Cpu (c.cpu_ram its memory.cpu_ram) *)
read(c, pos) ==
    IF pos <= \h1FFF THEN
        LET masked == BitAnd(pos, \h07FF) IN Ok(RamAt(c.cpu_ram, masked))
    ELSE IF pos <= \h3FFF THEN
        Err("not yet implemented: PPU")
    ELSE IF pos >= \h8000 THEN
        LET pos0 == pos - \h8000
            pos1 == IF prg_rom.len = \h4000 THEN pos0 % \h4000 ELSE pos0
        IN  IF pos1 < prg_rom.len THEN Ok(PrgAt(prg_rom, pos1))
            ELSE Err("index out of bounds")
    ELSE
        Ok(0)

(* Bus::write: the memory after the write *)
(* a write that drops a store to the PRG ROM silently *)
write_rom_ignored(ram, pos, val) ==
    IF pos <= \h1FFF THEN Ok(RamStore(ram, BitAnd(pos, \h07FF), val))
    ELSE IF pos <= \h3FFF THEN Err("not yet implemented: PPU")
    ELSE Ok(ram)

(* a write that lets an unmapped address fall through to the RAM *)
write_unmapped_stored(ram, pos, val) ==
    IF pos <= \h1FFF \/ (pos >= \h4000 /\ pos < \h8000)
    THEN Ok(RamStore(ram, BitAnd(pos, \h07FF), val))
    ELSE IF pos <= \h3FFF THEN Err("not yet implemented: PPU")
    ELSE Err("Attempted to write into PRG rom")

(* a write that does not mask the address *)
write_unmasked(ram, pos, val) ==
    IF pos <= \h1FFF THEN Ok(RamStore(ram, pos, val))
    ELSE IF pos <= \h3FFF THEN Err("not yet implemented: PPU")
    ELSE IF pos >= \h8000 THEN Err("Attempted to write into PRG rom")
    ELSE Ok(ram)

write(ram, pos, val) ==
    IF pos <= \h1FFF THEN
        LET masked == BitAnd(pos, \h07FF) IN Ok(RamStore(ram, masked, val))
    ELSE IF pos <= \h3FFF THEN
        Err("not yet implemented: PPU")
    ELSE IF pos >= \h8000 THEN
        Err("Attempted to write into PRG rom")
    ELSE
        Ok(ram)

(* Bus::write_u16 *)
write_u16(ram, pos, val) ==
    LET low == val % 256
        high == val \div 256
    IN  Bind(write(ram, pos, low), LAMBDA ram1:
        Bind(AddU16(pos, 1), LAMBDA p1: write(ram1, p1, high)))

(* Bus::read_u16 *)
read_u16(c, pos) ==
    Bind(read(c, pos), LAMBDA low:
    Bind(AddU16(pos, 1), LAMBDA pos1:
    Bind(read(c, pos1), LAMBDA high:
    Ok(MakeWord(high, low)))))

(* Bus::load_to: slice.len() bytes copied to cpu_ram[pos..] *)
CopyFromSlice(ram, pos, slice) ==
    LET covered == { pos + i - 1 : i \in 1 .. Len(slice) }
        nonzero == { pos + i - 1 : i \in { j \in 1 .. Len(slice) : slice[j] # 0 } }
    IN  [k \in (DOMAIN ram \ covered) \cup nonzero |->
            IF k \in nonzero THEN slice[k - pos + 1] ELSE ram[k]]

bus_load_to(ram, pos, slice) ==
    IF pos + Len(slice) > RAM_SIZE THEN Err("range end index out of range")
    ELSE Ok(CopyFromSlice(ram, pos, slice))

---------------------------------------------------------------------------
(* Cpu *)

Self ==
    [reg_a |-> reg_a, reg_x |-> reg_x, reg_y |-> reg_y, stack_ptr |-> stack_ptr,
     pc |-> pc, status |-> status, cpu_ram |-> cpu_ram]

(* Cpu::update_zero_negative *)
(* Zero alone recomputed *)
update_zero_negative_zero_only(c, value) ==
    [c EXCEPT !.status = set(@, ZERO, value = 0)]

update_zero_negative(c, value) ==
    [c EXCEPT !.status =
        set(set(@, ZERO, value = 0), NEGATIVE, BitAnd(value, \h80) # 0)]

(* Cpu::get_addr_mode_dest *)
get_addr_mode_dest(c, addr_mode) ==
    CASE addr_mode = "Implicit" -> Err("Implicit should not need a memory load")
      [] addr_mode = "Accumulator" ->
            Err("Accumulator should not need a memory load")
      [] addr_mode = "Immediate" -> AddU16(c.pc, 1)
      [] addr_mode = "ZeroPage" ->
            Bind(AddU16(c.pc, 1), LAMBDA p1: read(c, p1))
      [] addr_mode = "ZeroPageX" ->
            Bind(AddU16(c.pc, 1), LAMBDA p1:
            Bind(read(c, p1), LAMBDA b: Ok(wrapping_add8(b, c.reg_x))))
      [] addr_mode = "ZeroPageY" ->
            Bind(AddU16(c.pc, 1), LAMBDA p1:
            Bind(read(c, p1), LAMBDA b: Ok(wrapping_add8(b, c.reg_y))))
      [] addr_mode = "Relative" -> AddU16(c.pc, 1)
      [] addr_mode = "Absolute" ->
            Bind(AddU16(c.pc, 1), LAMBDA p1: read_u16(c, p1))
      [] addr_mode = "AbsoluteX" ->
            Bind(AddU16(c.pc, 1), LAMBDA p1:
            Bind(read_u16(c, p1), LAMBDA w: Ok(wrapping_add16(w, c.reg_x))))
      [] addr_mode = "AbsoluteY" ->
            Bind(AddU16(c.pc, 1), LAMBDA p1:
            Bind(read_u16(c, p1), LAMBDA w: Ok(wrapping_add16(w, c.reg_y))))
      [] addr_mode = "Indirect" -> Err("Should be implemented outside")
      [] addr_mode = "IndexedIndirect" ->
            Bind(AddU16(c.pc, 1), LAMBDA p1:
            Bind(read(c, p1), LAMBDA b:
            LET addr == wrapping_add8(b, c.reg_x) IN
            Bind(read(c, addr), LAMBDA low:
            Bind(read(c, wrapping_add16(addr, 1)), LAMBDA high:
            Ok(MakeWord(high, low))))))
      [] addr_mode = "IndirectIndexed" ->
            Bind(AddU16(c.pc, 1), LAMBDA p1:
            Bind(read(c, p1), LAMBDA base_loc:
            Bind(read(c, base_loc), LAMBDA low:
            Bind(read(c, wrapping_add8(base_loc, 1)), LAMBDA high:
            AddU16(MakeWord(high, low), c.reg_y)))))

(* Cpu::push_stack / pop_stack / push_stack_u16 / pop_stack_u16.  A pop
   yields <<the Cpu after it, the value>>. *)
(* a push that decrements before it writes *)
push_stack_decrement_first(c, val) ==
    LET sp == wrapping_sub8(c.stack_ptr, 1) IN
    Bind(write(c.cpu_ram, STACK_START + sp, val), LAMBDA ram:
    Ok([c EXCEPT !.cpu_ram = ram, !.stack_ptr = sp]))

push_stack(c, val) ==
    Bind(write(c.cpu_ram, STACK_START + c.stack_ptr, val), LAMBDA ram:
    Ok([c EXCEPT !.cpu_ram = ram, !.stack_ptr = wrapping_sub8(c.stack_ptr, 1)]))

(* a pop that reads before it increments *)
pop_stack_read_first(c) ==
    Bind(read(c, STACK_START + c.stack_ptr), LAMBDA v:
    Ok(<<[c EXCEPT !.stack_ptr = wrapping_add8(c.stack_ptr, 1)], v>>))

pop_stack(c) ==
    LET c1 == [c EXCEPT !.stack_ptr = wrapping_add8(c.stack_ptr, 1)] IN
    Bind(read(c1, STACK_START + c1.stack_ptr), LAMBDA v: Ok(<<c1, v>>))

(* the low byte pushed first *)
push_stack_u16_low_first(c, val) ==
    LET low == AsU8(val)
        high == AsU8(val \div 256)
    IN  Bind(push_stack(c, low), LAMBDA c1: push_stack(c1, high))

push_stack_u16(c, val) ==
    LET low == AsU8(val)
        high == AsU8(val \div 256)
    IN  Bind(push_stack(c, high), LAMBDA c1: push_stack(c1, low))

pop_stack_u16(c) ==
    Bind(pop_stack(c), LAMBDA r1:
    Bind(pop_stack(r1[1]), LAMBDA r2:
    Ok(<<r2[1], MakeWord(r2[2], r1[2])>>)))

(* Overflow taken from the carry out *)
add_a_overflow_from_carry(c, val) ==
    LET sum == c.reg_a + val + (IF contains(c.status, CARRY) THEN 1 ELSE 0)
        st1 == set(c.status, CARRY, sum > \hFF)
        res == AsU8(sum)
        st2 == set(st1, OVERFLOW, sum > \hFF)
    IN  update_zero_negative([c EXCEPT !.status = st2, !.reg_a = res], res)

(* the carry-in left out of the sum *)
add_a_no_carry_in(c, val) ==
    LET sum == c.reg_a + val
        st1 == set(c.status, CARRY, sum > \hFF)
        res == AsU8(sum)
        overflow == BitAnd(BitAnd(BitXor(val, res), BitXor(res, c.reg_a)), \h80) # 0
        st2 == set(st1, OVERFLOW, overflow)
    IN  update_zero_negative([c EXCEPT !.status = st2, !.reg_a = res], res)

(* Cpu::add_a *)
add_a(c, val) ==
    LET sum == c.reg_a + val + (IF contains(c.status, CARRY) THEN 1 ELSE 0)
        st1 == set(c.status, CARRY, sum > \hFF)
        res == AsU8(sum)
        overflow == BitAnd(BitAnd(BitXor(val, res), BitXor(res, c.reg_a)), \h80) # 0
        st2 == set(st1, OVERFLOW, overflow)
    IN  update_zero_negative([c EXCEPT !.status = st2, !.reg_a = res], res)

(* the displacement taken as unsigned (`as u16` for `as i8 as i16`) *)
branch_impl_unsigned(c, addr_mode, flag, set_) ==
    Bind(get_addr_mode_dest(c, addr_mode), LAMBDA addr:
    Bind(read(c, addr), LAMBDA b:
    IF (~contains(c.status, flag)) # set_
    THEN Ok([c EXCEPT !.pc = wrapping_add16(c.pc, b)])
    ELSE Ok(c)))

(* Cpu::branch_impl *)
branch_impl(c, addr_mode, flag, set_) ==
    Bind(get_addr_mode_dest(c, addr_mode), LAMBDA addr:
    Bind(read(c, addr), LAMBDA b:
    LET val == AsI8(b) IN
    IF (~contains(c.status, flag)) # set_
    THEN Ok([c EXCEPT !.pc = wrapping_add_signed(c.pc, val)])
    ELSE Ok(c)))

---------------------------------------------------------------------------
(* Cpu::step: the arms of its match.  An arm yields the Cpu after it and
   whether it left step() by `return` (before `self.pc += inst_info.size`). *)

Fall(c) == Ok([c |-> c, returned |-> FALSE])
Return(c) == Ok([c |-> c, returned |-> TRUE])

(* let addr = self.get_addr_mode_dest(addr_mode); let val = self.memory.read(addr); *)
operand(c, addr_mode) ==
    Bind(get_addr_mode_dest(c, addr_mode), LAMBDA addr: read(c, addr))

(* self.memory.write(addr, val) on the Cpu *)
mem_write(c, addr, val) ==
    Bind(write(c.cpu_ram, addr, val), LAMBDA ram: Ok([c EXCEPT !.cpu_ram = ram]))

op_ADC(c, addr_mode) ==
    Bind(operand(c, addr_mode), LAMBDA val: Fall(add_a(c, val)))

op_AND(c, addr_mode) ==
    Bind(operand(c, addr_mode), LAMBDA val:
    LET a == BitAnd(c.reg_a, val) IN
    Fall(update_zero_negative([c EXCEPT !.reg_a = a], a)))

(* ASL, LSR, ROL, ROR: `carry` is the bit shifted out, `shifted` the new value *)
shift_arm(c, addr_mode, CarryOf(_), Shifted(_, _)) ==
    IF addr_mode = "Accumulator" THEN
        LET carry == CarryOf(c.reg_a)
            a == Shifted(c.reg_a, contains(c.status, CARRY))
            c1 == [c EXCEPT !.reg_a = a, !.status = set(@, CARRY, carry)]
        IN  Fall(update_zero_negative(c1, a))
    ELSE
        Bind(get_addr_mode_dest(c, addr_mode), LAMBDA addr:
        Bind(read(c, addr), LAMBDA val:
        LET carry == CarryOf(val)
            new_val == Shifted(val, contains(c.status, CARRY))
        IN  Bind(mem_write(c, addr, new_val), LAMBDA c1:
            Fall(update_zero_negative(
                    [c1 EXCEPT !.status = set(@, CARRY, carry)], new_val)))))

(* an ASL that resolves its address before it looks at the mode *)
op_ASL_resolve_first(c, addr_mode) ==
    Bind(get_addr_mode_dest(c, addr_mode), LAMBDA addr:
    shift_arm(c, addr_mode, LAMBDA v: BitAnd(v, \h80) # 0, LAMBDA v, cin: Shl8(v)))

op_ASL(c, addr_mode) ==
    shift_arm(c, addr_mode, LAMBDA v: BitAnd(v, \h80) # 0, LAMBDA v, cin: Shl8(v))

op_LSR(c, addr_mode) ==
    shift_arm(c, addr_mode, LAMBDA v: BitAnd(v, 1) # 0, LAMBDA v, cin: Shr8(v))

(* ROL without the carry fed into bit 0 *)
op_ROL_drop_carry(c, addr_mode) == op_ASL(c, addr_mode)

op_ROL(c, addr_mode) ==
    shift_arm(c, addr_mode, LAMBDA v: BitAnd(v, \h80) # 0,
              LAMBDA v, cin: Shl8(v) + (IF cin THEN 1 ELSE 0))

(* ROR without the carry fed into bit 7 *)
op_ROR_drop_carry(c, addr_mode) == op_LSR(c, addr_mode)

op_ROR(c, addr_mode) ==
    shift_arm(c, addr_mode, LAMBDA v: BitAnd(v, 1) # 0,
              LAMBDA v, cin: Shr8(v) + (IF cin THEN 128 ELSE 0))

op_branch(c, addr_mode, flag, set_) ==
    Bind(branch_impl(c, addr_mode, flag, set_), LAMBDA c1: Fall(c1))

op_BIT(c, addr_mode) ==
    Bind(operand(c, addr_mode), LAMBDA val:
    LET st1 == set(c.status, OVERFLOW, BitAnd(val, 64) # 0)
        st2 == set(st1, NEGATIVE, BitAnd(val, 128) # 0)
        st3 == set(st2, ZERO, BitAnd(c.reg_a, val) = 0)
    IN  Fall([c EXCEPT !.status = st3]))

(* a BRK that falls through to the pc advance *)
op_BRK_advance(c) == Fall([c EXCEPT !.status = insert(@, BREAK)])

op_BRK(c) == Return([c EXCEPT !.status = insert(@, BREAK)])

(* CMP, CPX, CPY on register value r *)
(* Carry from r > m *)
op_compare_strict(c, addr_mode, r) ==
    Bind(operand(c, addr_mode), LAMBDA m:
    Fall(update_zero_negative([c EXCEPT !.status = set(@, CARRY, r > m)],
                              wrapping_sub8(r, m))))

op_compare(c, addr_mode, r) ==
    Bind(operand(c, addr_mode), LAMBDA m:
    Fall(update_zero_negative([c EXCEPT !.status = set(@, CARRY, r >= m)],
                              wrapping_sub8(r, m))))

op_DEC(c, addr_mode) ==
    Bind(get_addr_mode_dest(c, addr_mode), LAMBDA addr:
    Bind(read(c, addr), LAMBDA val:
    LET val_m == wrapping_sub8(val, 1) IN
    Bind(mem_write(c, addr, val_m), LAMBDA c1:
    Fall(update_zero_negative(c1, val_m)))))

op_DEX(c) ==
    LET x == wrapping_sub8(c.reg_x, 1) IN
    Fall(update_zero_negative([c EXCEPT !.reg_x = x], x))

op_DEY(c) ==
    LET y == wrapping_sub8(c.reg_x, 1) IN
    Fall(update_zero_negative([c EXCEPT !.reg_y = y], y))

op_EOR(c, addr_mode) ==
    Bind(operand(c, addr_mode), LAMBDA val:
    LET a == BitXor(c.reg_a, val) IN
    Fall(update_zero_negative([c EXCEPT !.reg_a = a], a)))

op_INC(c, addr_mode) ==
    Bind(get_addr_mode_dest(c, addr_mode), LAMBDA addr:
    Bind(read(c, addr), LAMBDA val:
    LET val_m == wrapping_add8(val, 1) IN
    Bind(mem_write(c, addr, val_m), LAMBDA c1:
    Fall(update_zero_negative(c1, val_m)))))

op_INX(c) ==
    LET x == wrapping_add8(c.reg_x, 1) IN
    Fall(update_zero_negative([c EXCEPT !.reg_x = x], x))

op_INY(c) ==
    LET y == wrapping_add8(c.reg_y, 1) IN
    Fall(update_zero_negative([c EXCEPT !.reg_y = y], y))

(* the indirect target read as a plain word, across the page boundary *)
op_JMP_no_page_wrap(c, addr_mode) ==
    CASE addr_mode = "Absolute" ->
            Bind(get_addr_mode_dest(c, addr_mode), LAMBDA addr:
            Return([c EXCEPT !.pc = addr]))
      [] addr_mode = "Indirect" ->
            Bind(AddU16(c.pc, 1), LAMBDA p1:
            Bind(read_u16(c, p1), LAMBDA indirect_addr:
            Bind(read_u16(c, indirect_addr), LAMBDA new_pc:
            Return([c EXCEPT !.pc = new_pc]))))
      [] OTHER -> Err("internal error: entered unreachable code")

(* a JMP absolute that falls through to the pc advance *)
op_JMP_fall(c, addr_mode) ==
    Bind(get_addr_mode_dest(c, "Absolute"), LAMBDA addr:
    Fall([c EXCEPT !.pc = addr]))

op_JMP(c, addr_mode) ==
    CASE addr_mode = "Absolute" ->
            Bind(get_addr_mode_dest(c, addr_mode), LAMBDA addr:
            Return([c EXCEPT !.pc = addr]))
      [] addr_mode = "Indirect" ->
            Bind(AddU16(c.pc, 1), LAMBDA p1:
            Bind(read_u16(c, p1), LAMBDA indirect_addr:
            Bind(IF AsU8(indirect_addr) = \hFF
                 THEN Bind(read(c, indirect_addr), LAMBDA low:
                      Bind(read(c, BitAnd(indirect_addr, \hFF00)), LAMBDA high:
                      Ok(MakeWord(high, low))))
                 ELSE read_u16(c, indirect_addr),
                 LAMBDA new_pc: Return([c EXCEPT !.pc = new_pc]))))
      [] OTHER -> Err("internal error: entered unreachable code")

(* a JSR that pushes the address after it rather than that address - 1 *)
op_JSR_push_next(c, addr_mode) ==
    IF addr_mode # "Absolute" THEN Err("Invalid addr mode for JSR")
    ELSE
        Bind(AddU16(c.pc, 3), LAMBDA return_loc:
        Bind(AddU16(c.pc, 1), LAMBDA p1:
        Bind(read_u16(c, p1), LAMBDA fn_addr:
        Bind(push_stack_u16(c, return_loc), LAMBDA c1:
        Return([c1 EXCEPT !.pc = fn_addr])))))

op_JSR(c, addr_mode) ==
    IF addr_mode # "Absolute" THEN Err("Invalid addr mode for JSR")
    ELSE
        Bind(AddU16(c.pc, 3), LAMBDA return_loc:
        Bind(AddU16(c.pc, 1), LAMBDA p1:
        Bind(read_u16(c, p1), LAMBDA fn_addr:
        Bind(SubU16(return_loc, 1), LAMBDA pushed:
        Bind(push_stack_u16(c, pushed), LAMBDA c1:
        Return([c1 EXCEPT !.pc = fn_addr]))))))

op_LDA(c, addr_mode) ==
    Bind(operand(c, addr_mode), LAMBDA val:
    Fall(update_zero_negative([c EXCEPT !.reg_a = val], val)))

op_LDX(c, addr_mode) ==
    Bind(operand(c, addr_mode), LAMBDA val:
    Fall(update_zero_negative([c EXCEPT !.reg_x = val], val)))

op_LDY(c, addr_mode) ==
    Bind(operand(c, addr_mode), LAMBDA val:
    Fall(update_zero_negative([c EXCEPT !.reg_y = val], val)))

op_ORA(c, addr_mode) ==
    Bind(operand(c, addr_mode), LAMBDA val:
    LET a == BitOr(c.reg_a, val) IN
    Fall(update_zero_negative([c EXCEPT !.reg_a = a], a)))

op_PHA(c) == Bind(push_stack(c, c.reg_a), LAMBDA c1: Fall(c1))

op_PHP(c) == Bind(push_stack(c, c.status), LAMBDA c1: Fall(c1))

op_PLA(c) ==
    Bind(pop_stack(c), LAMBDA r:
    Fall(update_zero_negative([r[1] EXCEPT !.reg_a = r[2]], r[2])))

op_PLP(c) ==
    Bind(pop_stack(c), LAMBDA r: Fall([r[1] EXCEPT !.status = r[2]]))

op_RTI(c) ==
    Bind(pop_stack(c), LAMBDA r:
    Bind(pop_stack_u16([r[1] EXCEPT !.status = r[2]]), LAMBDA r2:
    Fall([r2[1] EXCEPT !.pc = r2[2]])))

(* RTS leaving step() by `return` *)
op_RTS_return(c) ==
    Bind(pop_stack_u16(c), LAMBDA r: Return([r[1] EXCEPT !.pc = r[2]]))

op_RTS(c) ==
    Bind(pop_stack_u16(c), LAMBDA r: Fall([r[1] EXCEPT !.pc = r[2]]))

op_SBC(c, addr_mode) ==
    Bind(operand(c, addr_mode), LAMBDA val: Fall(add_a(c, Not8(val))))

(* a store that recomputes Zero/Negative from the value stored *)
op_store_with_flags(c, addr_mode, r) ==
    Bind(get_addr_mode_dest(c, addr_mode), LAMBDA addr:
    Bind(mem_write(c, addr, r), LAMBDA c1: Fall(update_zero_negative(c1, r))))

(* STA, STX, STY of register value r *)
op_store(c, addr_mode, r) ==
    Bind(get_addr_mode_dest(c, addr_mode), LAMBDA addr:
    Bind(mem_write(c, addr, r), LAMBDA c1: Fall(c1)))

op_TAX(c) == Fall(update_zero_negative([c EXCEPT !.reg_x = c.reg_a], c.reg_a))
op_TAY(c) == Fall(update_zero_negative([c EXCEPT !.reg_y = c.reg_a], c.reg_a))
op_TSX(c) == Fall(update_zero_negative([c EXCEPT !.reg_x = c.stack_ptr], c.stack_ptr))
op_TXA(c) == Fall(update_zero_negative([c EXCEPT !.reg_a = c.reg_x], c.reg_x))
op_TXS(c) == Fall(update_zero_negative([c EXCEPT !.stack_ptr = c.reg_x], c.reg_x))
op_TYA(c) == Fall(update_zero_negative([c EXCEPT !.reg_a = c.reg_y], c.reg_y))

(* match (opcode, addr_mode) *)
execute(c, opcode, addr_mode) ==
    CASE opcode = "ADC" -> op_ADC(c, addr_mode)
      [] opcode = "AND" -> op_AND(c, addr_mode)
      [] opcode = "ASL" -> op_ASL(c, addr_mode)
      [] opcode = "BCC" -> op_branch(c, addr_mode, CARRY, FALSE)
      [] opcode = "BCS" -> op_branch(c, addr_mode, CARRY, TRUE)
      [] opcode = "BEQ" -> op_branch(c, addr_mode, ZERO, TRUE)
      [] opcode = "BIT" -> op_BIT(c, addr_mode)
      [] opcode = "BMI" -> op_branch(c, addr_mode, NEGATIVE, TRUE)
      [] opcode = "BNE" -> op_branch(c, addr_mode, ZERO, FALSE)
      [] opcode = "BPL" -> op_branch(c, addr_mode, NEGATIVE, FALSE)
      [] opcode = "BRK" -> op_BRK(c)
      [] opcode = "BVC" -> op_branch(c, addr_mode, OVERFLOW, FALSE)
      [] opcode = "BVS" -> op_branch(c, addr_mode, OVERFLOW, TRUE)
      [] opcode = "CLC" -> Fall([c EXCEPT !.status = remove(@, CARRY)])
      [] opcode = "CLD" -> Fall([c EXCEPT !.status = remove(@, DECIMAL)])
      [] opcode = "CLI" -> Fall([c EXCEPT !.status = remove(@, INTERRUPTDISABLE)])
      [] opcode = "CLV" -> Fall([c EXCEPT !.status = remove(@, OVERFLOW)])
      [] opcode = "CMP" -> op_compare(c, addr_mode, c.reg_a)
      [] opcode = "CPX" -> op_compare(c, addr_mode, c.reg_x)
      [] opcode = "CPY" -> op_compare(c, addr_mode, c.reg_y)
      [] opcode = "DEC" -> op_DEC(c, addr_mode)
      [] opcode = "DEX" -> op_DEX(c)
      [] opcode = "DEY" -> op_DEY(c)
      [] opcode = "EOR" -> op_EOR(c, addr_mode)
      [] opcode = "INC" -> op_INC(c, addr_mode)
      [] opcode = "INX" -> op_INX(c)
      [] opcode = "INY" -> op_INY(c)
      [] opcode = "JMP" -> op_JMP(c, addr_mode)
      [] opcode = "JSR" -> op_JSR(c, addr_mode)
      [] opcode = "LDA" -> op_LDA(c, addr_mode)
      [] opcode = "LDX" -> op_LDX(c, addr_mode)
      [] opcode = "LDY" -> op_LDY(c, addr_mode)
      [] opcode = "LSR" -> op_LSR(c, addr_mode)
      [] opcode = "NOP" -> Fall(c)
      [] opcode = "ORA" -> op_ORA(c, addr_mode)
      [] opcode = "PHA" -> op_PHA(c)
      [] opcode = "PHP" -> op_PHP(c)
      [] opcode = "PLA" -> op_PLA(c)
      [] opcode = "PLP" -> op_PLP(c)
      [] opcode = "ROL" -> op_ROL(c, addr_mode)
      [] opcode = "ROR" -> op_ROR(c, addr_mode)
      [] opcode = "RTI" -> op_RTI(c)
      [] opcode = "RTS" -> op_RTS(c)
      [] opcode = "SBC" -> op_SBC(c, addr_mode)
      [] opcode = "SEC" -> Fall([c EXCEPT !.status = insert(@, CARRY)])
      [] opcode = "SED" -> Fall([c EXCEPT !.status = insert(@, DECIMAL)])
      [] opcode = "SEI" -> Fall([c EXCEPT !.status = insert(@, INTERRUPTDISABLE)])
      [] opcode = "STA" -> op_store(c, addr_mode, c.reg_a)
      [] opcode = "STX" -> op_store(c, addr_mode, c.reg_x)
      [] opcode = "STY" -> op_store(c, addr_mode, c.reg_y)
      [] opcode = "TAX" -> op_TAX(c)
      [] opcode = "TAY" -> op_TAY(c)
      [] opcode = "TSX" -> op_TSX(c)
      [] opcode = "TXA" -> op_TXA(c)
      [] opcode = "TXS" -> op_TXS(c)
      [] opcode = "TYA" -> op_TYA(c)

(* self.pc += 1 *)
advance_pc_by_one(c, size) ==
    Bind(AddU16(c.pc, 1), LAMBDA p: Ok([c EXCEPT !.pc = p]))

(* self.pc += inst_info.size *)
advance_pc(c, size) ==
    Bind(AddU16(c.pc, size), LAMBDA p: Ok([c EXCEPT !.pc = p]))

(* an undecodable byte skipped as a one-byte no-op *)
step_skip_invalid(c) ==
    Bind(read(c, c.pc), LAMBDA instruction_byte:
    LET dr == decode(instruction_byte) IN
    IF dr.fault # "none"
    THEN Bind(AddU16(c.pc, 1), LAMBDA p: Ok([c EXCEPT !.pc = p]))
    ELSE LET d == dr.val IN
         Bind(execute(c, d[1], d[2]), LAMBDA r:
         IF r.returned THEN Ok(r.c)
         ELSE Bind(AddU16(r.c.pc, d[3].size), LAMBDA p: Ok([r.c EXCEPT !.pc = p]))))

(* Cpu::step, on Cpu c: the Cpu after it, or the panic *)
step(c) ==
    Bind(read(c, c.pc), LAMBDA instruction_byte:
    Bind(decode(instruction_byte), LAMBDA d:
    Bind(execute(c, d[1], d[2]), LAMBDA r:
    IF r.returned THEN Ok(r.c) ELSE advance_pc(r.c, d[3].size))))

(* Cpu::reset *)
(* a reset that leaves A, X and Y *)
reset_keep_registers(c) ==
    LET c1 == [c EXCEPT !.status = BitOr(INTERRUPTDISABLE, ALWAYSON),
                        !.stack_ptr = STACK_RESET]
    IN  Bind(read_u16(c1, \hFFFC), LAMBDA w: Ok([c1 EXCEPT !.pc = w]))

reset(c) ==
    LET c1 == [c EXCEPT !.status = BitOr(INTERRUPTDISABLE, ALWAYSON),
                        !.reg_a = 0, !.reg_x = 0, !.reg_y = 0,
                        !.stack_ptr = STACK_RESET]
    IN  Bind(read_u16(c1, \hFFFC), LAMBDA w: Ok([c1 EXCEPT !.pc = w]))

(* Cpu::load_to *)
load_to(c, start, program) ==
    Bind(bus_load_to(c.cpu_ram, start, program), LAMBDA ram:
    Bind(write_u16(ram, \hFFFC, \h8000), LAMBDA ram1:
    Ok([c EXCEPT !.cpu_ram = ram1])))

---------------------------------------------------------------------------
(* Inputs *)

MaxSteps == 2      \* steps taken after a staging

(* PRG images: a 16 KiB image holding the program A9 05 8D 00 02 4C 00 80 at
   its base with the reset vector 0x8000, and a 32 KiB image whose reset
   vector is 0x0600 and whose last bytes are INX, NOP. *)
RomImages ==
    { [len |-> \h4000,
       cells |-> (0 :> \hA9) @@ (1 :> \h05) @@ (2 :> \h8D) @@ (4 :> \h02) @@
                 (5 :> \h4C) @@ (7 :> \h80) @@ (\h3FFD :> \h80)],
      [len |-> \h8000,
       cells |-> (\h7FFD :> \h06) @@ (\h7FFE :> \hE8) @@ (\h7FFF :> \hEA)] }

(* RAM contents a host stages besides the program: a zero page, a stack page
   and a pointer table with data in them. *)
DataImage ==
    ( (\h00 :> \h02) @@ (\h01 :> \h03) @@ (\h05 :> \hF0) @@ (\h06 :> \hFF) @@
      (\h10 :> \hFF) @@ (\h11 :> \h01) @@
      (\h7F :> \h01) @@ (\h80 :> \h80) @@ (\h81 :> \h03) @@ (\hFF :> \h7F) @@
      (\h0100 :> \h34) @@ (\h0101 :> \h12) @@ (\h0102 :> \hE7) @@
      (\h01FE :> \hFF) @@ (\h01FF :> \hFF) @@
      (\h0200 :> \h56) @@ (\h02FF :> \h34) @@ (\h0300 :> \h12) )

(* operand bytes <<b1, b2>> following the opcode *)
OperandSamples ==
    { <<\h10, \h00>>, <<\hFF, \h02>>, <<\h80, \h00>>, <<\h05, \h80>>,
      <<\h00, \h20>>, <<\h7F, \h40>> }

(* <<A, X, Y, status>> *)
RegSamples ==
    { <<\h00, \h00, \h00, \h24>>, <<\h50, \h01, \hFF, \hE7>>,
      <<\hFF, \hFF, \h00, \h25>>, <<\h80, \h7F, \h80, \hE6>> }

(* operand words of JSR: RAM, ROM and the pointer-table page *)
JsrTargets == { <<\h10, \h00>>, <<\h05, \h80>>, <<\hFF, \h02>> }

SpSamples == { \hFD, \h00, \h01, \hFF }

(* status bytes: the flags N, V, Z, C each set in some and clear in others *)
FlagSamples == { \h24, \h27, \hA5, \h66 }

DispSamples == { \h00, \h05, \h7F, \h80, \hFB, \hFE, \hFF }

BranchOpcodes == { \h90, \hB0, \hF0, \h30, \hD0, \h10, \h50, \h70 }

StackOpcodes == { \h48, \h08, \h68, \h28, \h20, \h60, \h40, \hBA, \h9A }

ProgAddrs == { \h0000, \h0600, \h07FD }

(* values of the accumulator operand of ADC/SBC *)
ByteEdges ==
    { \h00, \h01, \h02, \h0F, \h10, \h3F, \h40, \h4F, \h50, \h7E, \h7F,
      \h80, \h81, \hA0, \hB0, \hC0, \hEF, \hF0, \hFE, \hFF }

---------------------------------------------------------------------------
(* State machine *)

NewCpu ==
    [reg_a |-> 0, reg_x |-> 0, reg_y |-> 0, stack_ptr |-> 0, pc |-> 0,
     status |-> 0, cpu_ram |-> <<>>]

(* Cpu::new(Bus::new(rom)) *)
Init ==
    /\ prg_rom \in RomImages
    /\ overflow_checks \in BOOLEAN
    /\ LET r == reset(NewCpu) IN
        /\ fault = r.fault
        /\ reg_a = r.val.reg_a
        /\ reg_x = r.val.reg_x
        /\ reg_y = r.val.reg_y
        /\ stack_ptr = r.val.stack_ptr
        /\ pc = r.val.pc
        /\ status = r.val.status
        /\ cpu_ram = r.val.cpu_ram
        /\ last = [kind |-> "new", cpu |-> r.val, steps |-> 0]

(* the host writes the cells of `data` (Bus::write to RAM addresses) *)
LoadCells(ram, data) ==
    [k \in DOMAIN ram \cup DOMAIN data |->
        IF k \in DOMAIN data THEN data[k] ELSE ram[k]]

(* The host, holding the Cpu mutably (the callback of run_with_callback, a
   test): on a freshly built Cpu it writes `data` and loads `program` into
   RAM (Bus::load_to) and sets the public registers. *)
CanStage == fault = "none" /\ last.kind = "new"

Stage(at, program, regs, sp, st, data) ==
    /\ LET r == bus_load_to(LoadCells(cpu_ram, data), at, program) IN
        /\ r.fault = "none"
        /\ cpu_ram' = r.val
    /\ reg_a' = regs[1]
    /\ reg_x' = regs[2]
    /\ reg_y' = regs[3]
    /\ stack_ptr' = sp
    /\ status' = st
    /\ pc' = at
    /\ last' = [kind |-> "stage", cpu |-> Self, steps |-> 0]
    /\ UNCHANGED <<prg_rom, overflow_checks, fault>>

(* any opcode byte, legal or not, at 0x0600 *)
StageAny ==
    /\ CanStage
    /\ prg_rom.len = \h8000
    /\ \E op \in Byte, opnd \in OperandSamples, rs \in RegSamples :
        Stage(\h0600, <<op>> \o opnd, <<rs[1], rs[2], rs[3]>>, STACK_RESET, rs[4],
              DataImage)

StageBranch ==
    /\ CanStage
    /\ \E op \in BranchOpcodes, disp \in DispSamples, st \in FlagSamples,
          at \in ProgAddrs :
        Stage(at, <<op, disp>>, <<\h50, \h01, \hFF>>, STACK_RESET, st, <<>>)

StageStack ==
    /\ CanStage
    /\ \E op \in StackOpcodes, opnd \in JsrTargets, sp \in SpSamples,
          rs \in RegSamples, data \in {<<>>, DataImage}, at \in ProgAddrs :
        Stage(at, <<op>> \o opnd, <<rs[1], rs[2], rs[3]>>, sp, rs[4], data)

(* the host sets pc to one of the image's last bytes *)
StageTop ==
    /\ CanStage
    /\ \E at \in {\hFFFD, \hFFFE, \hFFFF}, rs \in RegSamples :
        /\ reg_a' = rs[1]
        /\ reg_x' = rs[2]
        /\ reg_y' = rs[3]
        /\ pc' = at
        /\ last' = [kind |-> "stage", cpu |-> Self, steps |-> 0]
        /\ UNCHANGED <<stack_ptr, status, cpu_ram, prg_rom, overflow_checks, fault>>

(* ADC #m and SBC #m for every A and both carries *)
StageAlu ==
    /\ CanStage
    /\ prg_rom.len = \h8000
    /\ overflow_checks
    /\ \E op \in {\h69, \hE9}, a \in Byte, m \in ByteEdges, cin \in {0, 1},
          st \in {\h24, \hE6} :
        Stage(\h0600, <<op, m>>, <<a, \h00, \h00>>, STACK_RESET, st + cin, <<>>)

(* cpu.step() *)
Step ==
    /\ fault = "none"
    /\ last.steps < MaxSteps
    /\ LET r == step(Self) IN
        /\ last' = [kind |-> "step", cpu |-> Self, steps |-> last.steps + 1]
        /\ IF r.fault # "none"
           THEN /\ fault' = r.fault
                /\ UNCHANGED <<reg_a, reg_x, reg_y, stack_ptr, pc, status, cpu_ram>>
           ELSE /\ fault' = "none"
                /\ reg_a' = r.val.reg_a
                /\ reg_x' = r.val.reg_x
                /\ reg_y' = r.val.reg_y
                /\ stack_ptr' = r.val.stack_ptr
                /\ pc' = r.val.pc
                /\ status' = r.val.status
                /\ cpu_ram' = r.val.cpu_ram
    /\ UNCHANGED <<prg_rom, overflow_checks>>

(* addresses above the RAM and its mirrors: the PPU window, the unmapped
   range, the PRG ROM *)
OutsideAddrs ==
    { \h2000, \h2007, \h3FFF, \h4000, \h4017, \h7FFF,
      \h8000, \h8005, \hBFFF, \hC000, \hFFFC, \hFFFF }

(* cpu.memory.write(a, v) by the host, on the fresh Cpu *)
HostWriteOutside ==
    /\ CanStage
    /\ \E a \in OutsideAddrs, v \in {\h00, \h5A, \hFF} :
        LET r == write(cpu_ram, a, v) IN
        /\ last' = [kind |-> "write_outside", cpu |-> Self, steps |-> 0,
                    addr |-> a, val |-> v]
        /\ fault' = r.fault
        /\ cpu_ram' = IF r.fault = "none" THEN r.val ELSE cpu_ram
        /\ UNCHANGED <<reg_a, reg_x, reg_y, stack_ptr, pc, status, prg_rom,
                       overflow_checks>>

(* where Cpu::load_to is asked to put a program, and the programs *)
LoadStarts == { \h0000, \h0010, \h0200, \h0600, \h07F8 }
LoadPrograms ==
    { <<\hE8, \hE8, \h00>>, <<\h00>>,
      <<\hA9, \h05, \h8D, \h00, \h02, \h4C, \h00, \h06>> }

(* cpu.load_to(start, program) by the host, on the fresh Cpu *)
HostLoadTo ==
    /\ CanStage
    /\ \E start \in LoadStarts, program \in LoadPrograms :
        LET r == load_to(Self, start, program) IN
        /\ last' = [kind |-> "load_to", cpu |-> Self, steps |-> 0,
                    start |-> start, program |-> program]
        /\ fault' = r.fault
        /\ cpu_ram' = IF r.fault = "none" THEN r.val.cpu_ram ELSE cpu_ram
        /\ UNCHANGED <<reg_a, reg_x, reg_y, stack_ptr, pc, status, prg_rom, overflow_checks>>

Next ==
    \/ StageAny \/ StageBranch \/ StageStack \/ StageTop
    \/ HostWriteOutside \/ HostLoadTo \/ Step

Spec == Init /\ [][Next]_vars

NextAlu == StageAlu \/ Step

SpecAlu == Init /\ [][NextAlu]_vars

(* One instruction on every byte value ------------------------------------*)

(* One opcode byte for each instruction that recomputes Zero/Negative (the
   shifts in Accumulator and in ZeroPage mode): LDA LDX LDY AND ORA EOR ADC
   SBC (immediate), INC DEC (zero page), INX INY DEX DEY, ASL LSR ROL ROR,
   PLA, TAX TAY TXA TYA TSX. *)
ResultOpcodes ==
    { \hA9, \hA2, \hA0, \h29, \h09, \h49, \h69, \hE9, \hE6, \hC6,
      \hE8, \hC8, \hCA, \h88, \h0A, \h4A, \h2A, \h6A, \h06, \h46, \h26, \h66,
      \h68, \hAA, \hA8, \h8A, \h98, \hBA }

(* the accumulator that lets the instruction's result range over every byte
   as its operand v does *)
AccFor(op, v) ==
    IF op \in {\h29, \hE9} THEN \hFF
    ELSE IF op \in {\h09, \h49, \h69} THEN \h00
    ELSE v

(* v in zero-page cell v and on top of the stack at 0x0100 *)
ResultCells(v) == IF v = 0 THEN <<>> ELSE (v :> v) @@ (\h0100 :> v)

(* The host stages <<op, v>> at 0x0600 with v in X, Y, the operand byte, the
   zero-page cell the operand byte names, and (for PLA) the top of the
   stack; SP = v (TSX). *)
StageResult ==
    /\ CanStage
    /\ prg_rom.len = \h8000
    /\ overflow_checks
    /\ \E op \in ResultOpcodes, v \in Byte, cin \in {0, 1} :
        Stage(\h0600, <<op, v>>, <<AccFor(op, v), v, v>>,
              IF op = \h68 THEN \hFF ELSE v, \h24 + cin, ResultCells(v))

(* CMP #m, CPX #m, CPY #m with the compared register r *)
StageCompare ==
    /\ CanStage
    /\ prg_rom.len = \h8000
    /\ overflow_checks
    /\ \E op \in {\hC9, \hE0, \hC0}, r \in Byte, m \in ByteEdges,
          st \in {\h24, \hE7} :
        Stage(\h0600, <<op, m>>,
              <<IF op = \hC9 THEN r ELSE \h11, IF op = \hE0 THEN r ELSE \h22,
                IF op = \hC0 THEN r ELSE \h33>>,
              STACK_RESET, st, <<>>)

(* the one step() after a staging *)
StepOnce ==
    /\ last.kind = "stage"
    /\ Step

NextValues == StageResult \/ StageCompare \/ StepOnce

SpecValues == Init /\ [][NextValues]_vars

(* Pushes and pops ------------------------------------------------------*)

(* the number of cells of the stack page *)
StackDepth == Cardinality(Byte)

(* how many values are pushed before the pops begin *)
DepthSamples == { 1, 2, 3, 128, 255, 256 }

(* the i-th value pushed: 256 distinct bytes, or bytes that repeat *)
PushPatterns == { "distinct", "squares" }
PushValue(pattern, i) ==
    IF pattern = "distinct" THEN (37 * i + 11) % 256 ELSE (i * i) % 256

(* 256 PHA at 0x0200 and 256 PLA at 0x0300 *)
LifoProgram == [i \in 1 .. 2 * StackDepth |-> IF i <= StackDepth THEN \h48 ELSE \h68]

StageLifo ==
    /\ CanStage
    /\ prg_rom.len = \h8000
    /\ overflow_checks
    /\ \E sp \in SpSamples, pattern \in PushPatterns :
        /\ LET r == bus_load_to(cpu_ram, \h0200, LifoProgram) IN
            /\ r.fault = "none"
            /\ cpu_ram' = r.val
        /\ stack_ptr' = sp
        /\ pc' = \h0200
        /\ last' = [kind |-> "lifo", cpu |-> Self, steps |-> 0, start_sp |-> sp,
                    pattern |-> pattern, pushed |-> <<>>, popped |-> <<>>]
        /\ UNCHANGED <<reg_a, reg_x, reg_y, status, prg_rom, overflow_checks, fault>>

(* f(self); self.step() of run_with_callback: the callback has put `c` in
   place of the Cpu, then step() runs.  Remembered: the value v pushed, or
   the A a pop left. *)
CallbackThenStep(c, pushing, v) ==
    LET r == step(c) IN
    /\ IF r.fault # "none"
       THEN /\ fault' = r.fault
            /\ last' = [last EXCEPT !.cpu = c]
            /\ UNCHANGED <<reg_a, reg_x, reg_y, stack_ptr, pc, status, cpu_ram>>
       ELSE /\ fault' = "none"
            /\ last' = IF pushing
                       THEN [last EXCEPT !.cpu = c, !.steps = @ + 1,
                                         !.pushed = Append(@, v)]
                       ELSE [last EXCEPT !.cpu = c, !.steps = @ + 1,
                                         !.popped = Append(@, r.val.reg_a)]
            /\ reg_a' = r.val.reg_a
            /\ reg_x' = r.val.reg_x
            /\ reg_y' = r.val.reg_y
            /\ stack_ptr' = r.val.stack_ptr
            /\ pc' = r.val.pc
            /\ status' = r.val.status
            /\ cpu_ram' = r.val.cpu_ram
    /\ UNCHANGED <<prg_rom, overflow_checks>>

(* the callback loads A with the next value; step() executes the PHA at pc *)
LifoPush ==
    /\ fault = "none"
    /\ last.kind = "lifo"
    /\ last.popped = <<>>
    /\ Len(last.pushed) < StackDepth
    /\ LET v == PushValue(last.pattern, Len(last.pushed) + 1)
           c == [Self EXCEPT !.reg_a = v]
       IN  CallbackThenStep(c, TRUE, v)

(* step() executes a PLA; before the first one the callback moves pc to the
   PLAs and clears A *)
LifoPop ==
    /\ fault = "none"
    /\ last.kind = "lifo"
    /\ Len(last.popped) < Len(last.pushed)
    /\ last.popped = <<>> => Len(last.pushed) \in DepthSamples
    /\ LET c == IF last.popped = <<>>
                THEN [Self EXCEPT !.pc = \h0300, !.reg_a = 0]
                ELSE Self
       IN  CallbackThenStep(c, FALSE, 0)

NextLifo == StageLifo \/ LifoPush \/ LifoPop

SpecLifo == Init /\ [][NextLifo]_vars

(* The bus alone --------------------------------------------------------*)

(* the addresses of the RAM and its mirrors *)
RamAddrs == 0 .. \h1FFF

(* the host writes DataImage into the fresh RAM *)
HostData ==
    /\ CanStage
    /\ prg_rom.len = \h8000
    /\ overflow_checks
    /\ cpu_ram' = LoadCells(cpu_ram, DataImage)
    /\ last' = [kind |-> "data", cpu |-> Self, steps |-> 0]
    /\ UNCHANGED <<reg_a, reg_x, reg_y, stack_ptr, pc, status, prg_rom,
                   overflow_checks, fault>>

(* cpu.memory.write(a, v) by the host *)
HostWrite ==
    /\ fault = "none"
    /\ last.kind \in {"new", "data"}
    /\ prg_rom.len = \h8000
    /\ overflow_checks
    /\ \E a \in RamAddrs, v \in {\h00, \h5A, \hFF} :
        LET r == write(cpu_ram, a, v) IN
        /\ last' = [kind |-> "write", cpu |-> Self, steps |-> 0,
                    addr |-> a, val |-> v]
        /\ fault' = r.fault
        /\ cpu_ram' = IF r.fault = "none" THEN r.val ELSE cpu_ram
        /\ UNCHANGED <<reg_a, reg_x, reg_y, stack_ptr, pc, status, prg_rom,
                       overflow_checks>>

NextBus == HostData \/ HostWrite

SpecBus == Init /\ [][NextBus]_vars

(* Reset ------------------------------------------------------------------*)

(* cpu.reset() by the host after steps, and again after a reset; the run
   ends with it *)
HostReset ==
    /\ fault = "none"
    /\ last.kind \in {"step", "reset"}
    /\ LET r == reset(Self) IN
        /\ last' = [kind |-> "reset", cpu |-> Self, steps |-> MaxSteps]
        /\ IF r.fault # "none"
           THEN /\ fault' = r.fault
                /\ UNCHANGED <<reg_a, reg_x, reg_y, stack_ptr, pc, status, cpu_ram>>
           ELSE /\ fault' = "none"
                /\ reg_a' = r.val.reg_a
                /\ reg_x' = r.val.reg_x
                /\ reg_y' = r.val.reg_y
                /\ stack_ptr' = r.val.stack_ptr
                /\ pc' = r.val.pc
                /\ status' = r.val.status
                /\ cpu_ram' = r.val.cpu_ram
    /\ UNCHANGED <<prg_rom, overflow_checks>>

NextReset == StageStack \/ Step \/ HostReset

SpecReset == Init /\ [][NextReset]_vars

(* run_with_callback -------------------------------------------------------*)

MaxCount == 6      \* callbacks and steps are counted up to this

(* programs the host loads at 0x0600, where the 32 KiB image's reset vector
   points: INX INX BRK; BRK; NOP BRK; JMP $0600; LDA #$10 PHA PLP NOP BRK;
   LDA #5 STA $0200 JMP $0600 *)
RunPrograms ==
    { <<\hE8, \hE8, \h00>>, <<\h00>>, <<\hEA, \h00>>, <<\h4C, \h00, \h06>>,
      <<\hA9, \h10, \h48, \h28, \hEA, \h00>>,
      <<\hA9, \h05, \h8D, \h00, \h02, \h4C, \h00, \h06>> }

(* what the closure passed to run_with_callback does to the Cpu: nothing
   (Cpu::run, the trace of tests/nestest.rs), or status.insert(BREAK) *)
CallbackKinds == { "none", "set_break" }

(* the loop's code points: its head `while !status.contains(BREAK)`, the
   call f(self), the call self.step(), and the code after the loop *)
run_next_test_after_callback(at, break_set) ==
    CASE at = "head" -> "callback"
      [] at = "callback" -> IF break_set THEN "exit" ELSE "step"
      [] at = "step" -> "head"

run_next(at, break_set) ==
    CASE at = "head" -> IF break_set THEN "exit" ELSE "callback"
      [] at = "callback" -> "step"
      [] at = "step" -> "head"

Counted(n) == IF n < MaxCount THEN n + 1 ELSE n

(* the host loads a program, perhaps sets Break, and calls run_with_callback *)
RunStart ==
    /\ CanStage
    /\ \E program \in RunPrograms, cb \in CallbackKinds, brk \in BOOLEAN :
        /\ LET r == bus_load_to(cpu_ram, \h0600, program) IN
            /\ r.fault = "none"
            /\ cpu_ram' = r.val
        /\ status' = IF brk THEN insert(status, BREAK) ELSE status
        /\ last' = [kind |-> "run", cpu |-> Self, steps |-> 0, callbacks |-> 0,
                    at |-> "head", callback |-> cb, entry_break |-> brk,
                    events |-> <<>>]
        /\ UNCHANGED <<reg_a, reg_x, reg_y, stack_ptr, pc, prg_rom,
                       overflow_checks, fault>>

(* run_with_callback has been entered *)
InRun == "at" \in DOMAIN last

(* the last two of the callback/step events, newest last *)
Noted(events, e) ==
    IF Len(events) < 2 THEN Append(events, e) ELSE <<events[2], e>>

(* while !self.status.contains(Flags::BREAK) *)
RunTest ==
    /\ fault = "none"
    /\ InRun
    /\ last.at = "head"
    /\ last' = [last EXCEPT !.kind = "test",
                            !.at = run_next("head", contains(status, BREAK))]
    /\ UNCHANGED <<cpu_vars, prg_rom, overflow_checks, fault>>

(* f(self) *)
RunCallback ==
    /\ fault = "none"
    /\ InRun
    /\ last.at = "callback"
    /\ status' = IF last.callback = "set_break" THEN insert(status, BREAK)
                 ELSE status
    /\ last' = [last EXCEPT !.kind = "callback",
                            !.callbacks = Counted(@),
                            !.events = Noted(@, "callback"),
                            !.at = run_next("callback", contains(status', BREAK))]
    /\ UNCHANGED <<reg_a, reg_x, reg_y, stack_ptr, pc, cpu_ram, prg_rom,
                   overflow_checks, fault>>

(* self.step() *)
RunStep ==
    /\ fault = "none"
    /\ InRun
    /\ last.at = "step"
    /\ LET r == step(Self) IN
        IF r.fault # "none"
        THEN /\ fault' = r.fault
             /\ last' = [last EXCEPT !.kind = "step", !.cpu = Self,
                                     !.steps = Counted(@),
                                     !.events = Noted(@, "step"),
                                     !.at = "panicked"]
             /\ UNCHANGED <<reg_a, reg_x, reg_y, stack_ptr, pc, status, cpu_ram>>
        ELSE /\ fault' = "none"
             /\ last' = [last EXCEPT !.kind = "step", !.cpu = Self,
                                     !.steps = Counted(@),
                                     !.events = Noted(@, "step"),
                                     !.at = run_next("step", contains(r.val.status, BREAK))]
             /\ reg_a' = r.val.reg_a
             /\ reg_x' = r.val.reg_x
             /\ reg_y' = r.val.reg_y
             /\ stack_ptr' = r.val.stack_ptr
             /\ pc' = r.val.pc
             /\ status' = r.val.status
             /\ cpu_ram' = r.val.cpu_ram
    /\ UNCHANGED <<prg_rom, overflow_checks>>

NextRun == RunStart \/ RunTest \/ RunCallback \/ RunStep

SpecRun == Init /\ [][NextRun]_vars

(* the loop is sequential code: it keeps running while it can *)
SpecRunFair == SpecRun /\ WF_vars(NextRun)

(* Rom::new ----------------------------------------------------------------*)

NES_MAGIC == <<\h4E, \h45, \h53, \h1A>>

(* data[i] of a byte slice held as its length and its non-zero bytes *)
DataAt(data, i) == IF i \in DOMAIN data.cells THEN data.cells[i] ELSE 0

(* data[from..to] *)
SliceOf(data, from, to) ==
    [len |-> to - from,
     cells |-> [k \in { i - from : i \in DOMAIN data.cells \cap (from .. to - 1) } |->
                    data.cells[k + from]]]

(* the Err(String) of Result<Rom, String>, a value returned *)
FormatError(msg) == Ok([ok |-> FALSE, err |-> msg])

parse_ines(data) ==
    IF data.len < 4 THEN Err("range end index 4 out of range for slice")
    ELSE IF <<DataAt(data, 0), DataAt(data, 1), DataAt(data, 2), DataAt(data, 3)>>
                # NES_MAGIC
    THEN FormatError("Expected NES magic number")
    ELSE IF data.len - 4 < 5 THEN FormatError("too short")
    ELSE
        LET prg_rom_size == DataAt(data, 4) * \h4000
            chr_rom_size == DataAt(data, 5) * \h2000
            flags6 == DataAt(data, 6)
            flags7 == DataAt(data, 7)
            rom_mapper_lower == flags6 \div 16
            four_screen == (flags6 \div 8) % 2 # 0
            trainer == (flags6 \div 4) % 2 # 0
            vert_horiz == flags6 % 2 # 0
            rom_mapper_upper == flags7 \div 16
            ines_fmt_bits == (flags7 \div 4) % 4
        IN  IF ines_fmt_bits # 0 THEN FormatError("Only NES1.0 supported")
            ELSE
                LET mirroring == IF four_screen THEN "FourScreen"
                                 ELSE IF vert_horiz THEN "Vertical"
                                 ELSE "Horizontal"
                    trainer_offset == IF trainer THEN 512 ELSE 0
                    mapper == BitAnd(rom_mapper_lower, (rom_mapper_upper * 16) % 256)
                    prg_rom_start == 16 + trainer_offset
                    chr_rom_start == prg_rom_start + prg_rom_size
                IN  IF prg_rom_start + prg_rom_size > data.len
                    THEN Err("range end index out of range for slice")
                    ELSE IF chr_rom_start + chr_rom_size > data.len
                    THEN Err("range end index out of range for slice")
                    ELSE Ok([ok |-> TRUE,
                             rom |-> [prg_rom |-> SliceOf(data, prg_rom_start,
                                                   prg_rom_start + prg_rom_size),
                                      chr_rom |-> SliceOf(data, chr_rom_start,
                                                   chr_rom_start + chr_rom_size),
                                      mapper |-> mapper,
                                      mirroring |-> mirroring]])

Rom_new(data) == parse_ines(data)

(* lengths of the files handed to Rom::new: empty, shorter than the magic,
   shorter than the header, the header alone, and headers followed by 16 KiB
   or 32 KiB of PRG, 8 KiB of CHR and a 512-byte trainer *)
FileLengths ==
    { 0, 1, 3, 4, 8, 9, 15, 16, 16 + \h4000, 16 + \h4000 + \h2000,
      16 + 512 + \h4000, 16 + \h8000 + \h2000 }

(* a file of `len` bytes: the header bytes that fit, a first PRG byte 0xA9 *)
FileOf(len, magic, prg, chr, flags6, flags7) ==
    LET header == (0 :> (IF magic THEN \h4E ELSE \h4D)) @@ (1 :> \h45) @@
                  (2 :> \h53) @@ (3 :> \h1A) @@ (4 :> prg) @@ (5 :> chr) @@
                  (6 :> flags6) @@ (7 :> flags7) @@ (16 :> \hA9)
    IN  [len |-> len,
         cells |-> [i \in { k \in DOMAIN header : k < len /\ header[k] # 0 } |->
                        header[i]]]

(* Rom::new(data) called by the host *)
ParseRom ==
    /\ CanStage
    /\ \E len \in FileLengths, magic \in BOOLEAN, prg \in {0, 1, 2}, chr \in {0, 1},
          flags6 \in {\h00, \h01, \h04, \h08}, flags7 \in {\h00, \h04, \h10} :
        LET data == FileOf(len, magic, prg, chr, flags6, flags7) IN
        last' = [kind |-> "rom", cpu |-> Self, steps |-> 0, data |-> data,
                 result |-> Rom_new(data)]
    /\ UNCHANGED <<cpu_vars, prg_rom, overflow_checks, fault>>

NextRom == ParseRom

SpecRom == Init /\ [][NextRom]_vars

(* Calls and returns -------------------------------------------------------*)

MaxCallSteps == 4      \* steps taken after a call is staged

(* where the subroutine is put *)
CallTargets == { \h0010, \h0300 }

(* the subroutine at T: RTS; INX RTS; PHA PLA RTS; PLA RTS (returns with one
   byte of the return address pulled); JSR T+4, RTS, RTS at T+4 *)
CallBodies(T) ==
    { <<\h60>>, <<\hE8, \h60>>, <<\h48, \h68, \h60>>, <<\h68, \h60>>,
      <<\h20, (T + 4) % 256, (T + 4) \div 256, \h60, \h60>> }

(* the host loads JSR T at P and a subroutine at T, and sets pc to P *)
StageCall ==
    /\ CanStage
    /\ \E P \in ProgAddrs, T \in CallTargets, sp \in SpSamples, rs \in RegSamples :
       \E body \in CallBodies(T) :
        /\ LET r1 == bus_load_to(cpu_ram, P, <<\h20, T % 256, T \div 256>>)
               r2 == bus_load_to(r1.val, T, body)
           IN  /\ r1.fault = "none"
               /\ r2.fault = "none"
               /\ cpu_ram' = r2.val
        /\ reg_a' = rs[1]
        /\ reg_x' = rs[2]
        /\ reg_y' = rs[3]
        /\ status' = rs[4]
        /\ stack_ptr' = sp
        /\ pc' = P
        /\ last' = [kind |-> "stage", cpu |-> Self, steps |-> 0, calls |-> <<>>]
        /\ UNCHANGED <<prg_rom, overflow_checks, fault>>

(* what a JSR executed at c.pc left when the step gave c1: where it was, the
   stack pointer before and after it, and the two bytes it put on the stack *)
CallFrame(c, c1) ==
    [at |-> c.pc, sp_before |-> c.stack_ptr, sp_after |-> c1.stack_ptr,
     high |-> RamAt(c1.cpu_ram, STACK_START + c.stack_ptr),
     low |-> RamAt(c1.cpu_ram, STACK_START + ((c.stack_ptr + 255) % 256))]

(* cpu.step(), the JSRs executed so far remembered *)
CallStep ==
    /\ fault = "none"
    /\ "calls" \in DOMAIN last
    /\ last.steps < MaxCallSteps
    /\ LET r == step(Self) IN
        IF r.fault # "none"
        THEN /\ fault' = r.fault
             /\ last' = [last EXCEPT !.kind = "step", !.cpu = Self, !.steps = @ + 1]
             /\ UNCHANGED <<reg_a, reg_x, reg_y, stack_ptr, pc, status, cpu_ram>>
        ELSE /\ fault' = "none"
             /\ last' = [last EXCEPT !.kind = "step", !.cpu = Self, !.steps = @ + 1,
                            !.calls = IF read(Self, pc) = Ok(\h20)
                                      THEN Append(@, CallFrame(Self, r.val))
                                      ELSE @]
             /\ reg_a' = r.val.reg_a
             /\ reg_x' = r.val.reg_x
             /\ reg_y' = r.val.reg_y
             /\ stack_ptr' = r.val.stack_ptr
             /\ pc' = r.val.pc
             /\ status' = r.val.status
             /\ cpu_ram' = r.val.cpu_ram
    /\ UNCHANGED <<prg_rom, overflow_checks>>

NextCall == StageCall \/ CallStep

SpecCall == Init /\ [][NextCall]_vars

(* Rotations ---------------------------------------------------------------*)

MaxRotations == 9      \* ROLs in a row

(* the zero-page cell rotated *)
RotatedCell == \h10

(* ROL A, ROR A; ROR A, ROL A; the same on the cell; ROLs in a row on A and
   on the cell *)
RotatePrograms ==
    { <<\h2A, \h6A>>, <<\h6A, \h2A>>,
      <<\h26, RotatedCell, \h66, RotatedCell>>,
      <<\h66, RotatedCell, \h26, RotatedCell>>,
      [i \in 1 .. MaxRotations |-> \h2A],
      [i \in 1 .. 2 * MaxRotations |-> IF i % 2 = 1 THEN \h26 ELSE RotatedCell] }

(* the number of instructions of a program of RotatePrograms *)
InstructionCount(program) ==
    IF program[1] \in {\h2A, \h6A} THEN Len(program) ELSE Len(program) \div 2

(* the host puts v in A and in the cell, sets Carry to cin and loads the
   program at 0x0600 *)
StageRotate ==
    /\ CanStage
    /\ prg_rom.len = \h8000
    /\ overflow_checks
    /\ \E v \in Byte, cin \in {0, 1}, program \in RotatePrograms :
        LET r == bus_load_to(RamStore(cpu_ram, RotatedCell, v), \h0600, program)
            c == [Self EXCEPT !.reg_a = v, !.status = \h24 + cin, !.pc = \h0600,
                              !.cpu_ram = r.val]
        IN  /\ r.fault = "none"
            /\ cpu_ram' = c.cpu_ram
            /\ reg_a' = c.reg_a
            /\ status' = c.status
            /\ pc' = c.pc
            /\ last' = [kind |-> "stage", cpu |-> Self, steps |-> 0, first |-> c,
                        count |-> InstructionCount(program),
                        on_cell |-> program[1] \notin {\h2A, \h6A}]
            /\ UNCHANGED <<reg_x, reg_y, stack_ptr, prg_rom, overflow_checks, fault>>

(* cpu.step(), as many times as the program has instructions *)
RotateStep ==
    /\ fault = "none"
    /\ "first" \in DOMAIN last
    /\ last.steps < last.count
    /\ LET r == step(Self) IN
        /\ last' = [last EXCEPT !.kind = "step", !.cpu = Self, !.steps = @ + 1]
        /\ IF r.fault # "none"
           THEN /\ fault' = r.fault
                /\ UNCHANGED <<reg_a, reg_x, reg_y, stack_ptr, pc, status, cpu_ram>>
           ELSE /\ fault' = "none"
                /\ reg_a' = r.val.reg_a
                /\ reg_x' = r.val.reg_x
                /\ reg_y' = r.val.reg_y
                /\ stack_ptr' = r.val.stack_ptr
                /\ pc' = r.val.pc
                /\ status' = r.val.status
                /\ cpu_ram' = r.val.cpu_ram
    /\ UNCHANGED <<prg_rom, overflow_checks>>

NextRotate == StageRotate \/ RotateStep

SpecRotate == Init /\ [][NextRotate]_vars

---------------------------------------------------------------------------
(* What the properties below speak of: the last step() call, the Cpu it
   started from (Pre) and the instruction it fetched and decoded. *)

Pre == last.cpu
Stepped == last.kind = "step"
Completed == Stepped /\ fault = "none"
Fetched == Stepped /\ read(Pre, Pre.pc).fault = "none"
LastByte == read(Pre, Pre.pc).val
Decoded == Fetched /\ decode(LastByte).fault = "none"
LastOpcode == decode(LastByte).val[1]
LastMode == decode(LastByte).val[2]
LastSize == decode(LastByte).val[3].size
Executed(opcodes) == Completed /\ Decoded /\ LastOpcode \in opcodes

(* the byte the bus holds at addr before the step, and the word at addr *)
MemByte(addr) == read(Pre, addr % 65536).val
MemWord(addr) == MemByte(addr) + 256 * MemByte(addr + 1)

(* bit tests written on the numbers themselves *)
Bit7(v) == (v \div 128) % 2
FlagOf(st, flag) == (st \div flag) % 2 = 1
Signed8(b) == IF b < 128 THEN b ELSE b - 256

RegistersKept ==
    /\ reg_a = Pre.reg_a
    /\ reg_x = Pre.reg_x
    /\ reg_y = Pre.reg_y
    /\ stack_ptr = Pre.stack_ptr

(* The documented legal opcode bytes of the 6502 *)
LegalOpcodes ==
    { \h69, \h65, \h75, \h6D, \h7D, \h79, \h61, \h71,
      \h29, \h25, \h35, \h2D, \h3D, \h39, \h21, \h31,
      \h0A, \h06, \h16, \h0E, \h1E, \h90, \hB0, \hF0, \h24, \h2C,
      \h30, \hD0, \h10, \h00, \h50, \h70, \h18, \hD8, \h58, \hB8,
      \hC9, \hC5, \hD5, \hCD, \hDD, \hD9, \hC1, \hD1,
      \hE0, \hE4, \hEC, \hC0, \hC4, \hCC, \hC6, \hD6, \hCE, \hDE,
      \hCA, \h88, \h49, \h45, \h55, \h4D, \h5D, \h59, \h41, \h51,
      \hE6, \hF6, \hEE, \hFE, \hE8, \hC8, \h4C, \h6C, \h20,
      \hA9, \hA5, \hB5, \hAD, \hBD, \hB9, \hA1, \hB1,
      \hA2, \hA6, \hB6, \hAE, \hBE, \hA0, \hA4, \hB4, \hAC, \hBC,
      \h4A, \h46, \h56, \h4E, \h5E, \hEA,
      \h09, \h05, \h15, \h0D, \h1D, \h19, \h01, \h11,
      \h48, \h08, \h68, \h28, \h2A, \h26, \h36, \h2E, \h3E,
      \h6A, \h66, \h76, \h6E, \h7E, \h40, \h60,
      \hE9, \hE5, \hF5, \hED, \hFD, \hF9, \hE1, \hF1,
      \h38, \hF8, \h78, \h85, \h95, \h8D, \h9D, \h99, \h81, \h91,
      \h86, \h96, \h8E, \h84, \h94, \h8C,
      \hAA, \hA8, \hBA, \h8A, \h9A, \h98 }

(* The reference byte size of an addressing mode *)
ModeSize(addr_mode) ==
    IF addr_mode \in {"Implicit", "Accumulator"} THEN 1
    ELSE IF addr_mode \in {"Absolute", "AbsoluteX", "AbsoluteY", "Indirect"} THEN 3
    ELSE 2

BranchNames == {"BCC", "BCS", "BEQ", "BNE", "BMI", "BPL", "BVC", "BVS"}
PcSetters == BranchNames \cup {"JMP", "JSR", "RTS", "RTI", "BRK"}

---------------------------------------------------------------------------
(* C1: for every legal opcode byte, the byteSize decode returns is the one
   its addressing mode fixes on the reference 6502: 1 for Implicit and
   Accumulator, 3 for Absolute, AbsoluteX, AbsoluteY and Indirect, 2 for
   the other modes.  The decode table gives Absolute-mode ADC, CPX and CPY
   (and ADC AbsoluteX/AbsoluteY) the size 2, so this fails. *)
C1_ByteSizeByMode == Decoded => LastSize = ModeSize(LastMode)

(* C2: a completed step of an instruction other than a branch, JMP, JSR,
   RTS, RTI or BRK leaves pc = (pc before + decoded byteSize) mod 65536. *)
C2_PcAdvance ==
    (Completed /\ Decoded /\ LastOpcode \notin PcSetters)
        => pc = (Pre.pc + LastSize) % 65536

C2_Witness ==
    /\ Executed({"STA"})
    /\ LastSize = 3
    /\ cpu_ram # Pre.cpu_ram
    /\ pc = Pre.pc + 3

(* C3: decode succeeds on the 151 documented legal bytes and on no other
   byte; a step() that fetches any other byte ends in the panic
   "Invalid Opcode" with the Cpu and RAM as they were. *)
C3_LegalOpcodes ==
    /\ Cardinality(LegalOpcodes) = 151
    /\ Fetched =>
        /\ (decode(LastByte).fault = "none") <=> (LastByte \in LegalOpcodes)
        /\ LastByte \notin LegalOpcodes =>
            /\ fault = "Invalid Opcode"
            /\ Self = Pre

C3_Witness ==
    /\ Fetched
    /\ LastByte = \h02
    /\ fault = "Invalid Opcode"

(* C4: a completed branch step leaves pc = (pc before + signed displacement
   + 2) mod 65536 when the tested flag has the required value, and
   (pc before + 2) mod 65536 when not; A, X, Y, SP, status and RAM are as
   before. *)
BranchFlag(opcode) ==
    CASE opcode \in {"BCC", "BCS"} -> CARRY
      [] opcode \in {"BEQ", "BNE"} -> ZERO
      [] opcode \in {"BMI", "BPL"} -> NEGATIVE
      [] opcode \in {"BVC", "BVS"} -> OVERFLOW

BranchWhenSet(opcode) == opcode \in {"BCS", "BEQ", "BMI", "BVS"}

BranchTaken ==
    FlagOf(Pre.status, BranchFlag(LastOpcode)) = BranchWhenSet(LastOpcode)

C4_Branch ==
    Executed(BranchNames) =>
        /\ pc = IF BranchTaken
                THEN (Pre.pc + Signed8(MemByte(Pre.pc + 1)) + 2 + 65536) % 65536
                ELSE (Pre.pc + 2) % 65536
        /\ RegistersKept
        /\ status = Pre.status
        /\ cpu_ram = Pre.cpu_ram

C4_Witness ==
    /\ Executed({"BMI"})
    /\ BranchTaken
    /\ MemByte(Pre.pc + 1) = \h80
    /\ Pre.pc = 0
    /\ pc = \hFF82

(* C5, as stated: a completed RTS or RTI leaves pc equal to the 16-bit
   value popped from the stack, nothing added. *)
PoppedAt(k) == MemByte(STACK_START + ((Pre.stack_ptr + k) % 256))

C6_Jsr ==
    Executed({"JSR"}) =>
        LET ret == (Pre.pc + 2) % 65536 IN
        /\ RamAt(cpu_ram, STACK_START + Pre.stack_ptr) = ret \div 256
        /\ RamAt(cpu_ram, STACK_START + ((Pre.stack_ptr + 255) % 256)) = ret % 256
        /\ stack_ptr = (Pre.stack_ptr + 254) % 256
        /\ pc = MemWord(Pre.pc + 1)
        /\ reg_a = Pre.reg_a
        /\ reg_x = Pre.reg_x
        /\ reg_y = Pre.reg_y
        /\ status = Pre.status

C6_Witness ==
    /\ Executed({"JSR"})
    /\ Pre.pc = \h0600
    /\ Pre.stack_ptr = 0
    /\ RamAt(cpu_ram, \h0100) = \h06
    /\ RamAt(cpu_ram, \h01FF) = \h02
    /\ stack_ptr = \hFE
    /\ pc = \h02FF

(* C7: a completed JMP indirect with pointer p (the word at pc+1) takes the
   low byte of the new pc from p and the high byte from (p AND 0xFF00) when
   p ends in 0xFF, from p+1 otherwise; JMP absolute takes the word at pc+1.
   Registers, status and RAM are as before. *)
C7_Jmp ==
    Executed({"JMP"}) =>
        LET p == MemWord(Pre.pc + 1)
            high_at == IF p % 256 = 255 THEN p - 255 ELSE p + 1
        IN  /\ LastMode = "Indirect" => pc = MemByte(p) + 256 * MemByte(high_at)
            /\ LastMode = "Absolute" => pc = p
            /\ LastMode \in {"Indirect", "Absolute"}
            /\ RegistersKept
            /\ status = Pre.status
            /\ cpu_ram = Pre.cpu_ram

C7_Witness ==
    /\ Executed({"JMP"})
    /\ LastMode = "Indirect"
    /\ MemWord(Pre.pc + 1) = \h02FF
    /\ MemByte(\h0300) = \h12
    /\ pc = \h5634

(* C8: a completed ADC of operand M with carry-in C gives
   A' = (A+M+C) mod 256, Carry' = (A+M+C > 255), Overflow' = bit 7 of
   ((M XOR A') AND (A' XOR A)), Zero' = (A' = 0), Negative' = bit 7 of A';
   A=0x50, M=0x50, C=0 gives A'=0xA0 with Overflow and Negative set, Carry
   and Zero clear. *)
LastOperand == operand(Pre, LastMode).val
CarryIn == IF FlagOf(Pre.status, CARRY) THEN 1 ELSE 0

C8_Adc ==
    Executed({"ADC"}) =>
        LET A == Pre.reg_a
            M == LastOperand
            sum == A + M + CarryIn
        IN  /\ reg_a = sum % 256
            /\ FlagOf(status, CARRY) = (sum > 255)
            /\ FlagOf(status, OVERFLOW) =
                    (Bit7(M) # Bit7(reg_a) /\ Bit7(reg_a) # Bit7(A))
            /\ FlagOf(status, ZERO) = (reg_a = 0)
            /\ FlagOf(status, NEGATIVE) = (Bit7(reg_a) = 1)
            /\ (A = \h50 /\ M = \h50 /\ CarryIn = 0) =>
                    /\ reg_a = \hA0
                    /\ FlagOf(status, OVERFLOW)
                    /\ ~FlagOf(status, CARRY)
                    /\ FlagOf(status, NEGATIVE)
                    /\ ~FlagOf(status, ZERO)

C8_Witness ==
    /\ Executed({"ADC"})
    /\ Pre.reg_a = \h50
    /\ LastOperand = \h50
    /\ CarryIn = 0
    /\ reg_a = \hA0
    /\ FlagOf(status, OVERFLOW)

(* C9: a completed SBC of operand M leaves the A and the status that ADC
   leaves for the operand M XOR 0xFF; so A' = (A - M - (1-C)) mod 256 and
   Carry' is set exactly when A >= M + (1-C). *)
C9_Sbc ==
    Executed({"SBC"}) =>
        LET A == Pre.reg_a
            M == LastOperand
            adc == add_a(Pre, BitXor(M, \hFF))
        IN  /\ reg_a = adc.reg_a
            /\ status = adc.status
            /\ reg_a = (A - M - (1 - CarryIn) + 512) % 256
            /\ FlagOf(status, CARRY) = (A >= M + (1 - CarryIn))

C9_Witness ==
    /\ Executed({"SBC"})
    /\ Pre.reg_a = \h10
    /\ LastOperand = \h40
    /\ CarryIn = 0
    /\ reg_a = \hCF
    /\ ~FlagOf(status, CARRY)

(* C10: a completed INC or DEC changes only the addressed RAM cell, INX or
   DEX only X, INY or DEY only Y, each to (its own old value + 1 or - 1)
   mod 256, with Zero and Negative recomputed from the new value and the
   other status bits kept.  DEY computes Y from X, so this fails. *)
ZeroNegativeOf(st, v) ==
    /\ FlagOf(st, ZERO) = (v = 0)
    /\ FlagOf(st, NEGATIVE) = (Bit7(v) = 1)
    /\ \A flag \in {OVERFLOW, ALWAYSON, BREAK, DECIMAL, INTERRUPTDISABLE, CARRY} :
            FlagOf(st, flag) = FlagOf(Pre.status, flag)

LastAddr == get_addr_mode_dest(Pre, LastMode).val

C10_IncDec ==
    /\ (Executed({"INC", "DEC"}) /\ LastAddr <= \h1FFF) =>
        LET cell == LastAddr % RAM_SIZE
            new == (RamAt(Pre.cpu_ram, cell)
                        + (IF LastOpcode = "INC" THEN 1 ELSE 255)) % 256
        IN  /\ cpu_ram = RamStore(Pre.cpu_ram, cell, new)
            /\ RegistersKept
            /\ ZeroNegativeOf(status, new)
    /\ Executed({"INX", "DEX"}) =>
        /\ reg_x = (Pre.reg_x + (IF LastOpcode = "INX" THEN 1 ELSE 255)) % 256
        /\ reg_a = Pre.reg_a /\ reg_y = Pre.reg_y /\ stack_ptr = Pre.stack_ptr
        /\ cpu_ram = Pre.cpu_ram
        /\ ZeroNegativeOf(status, reg_x)
    /\ Executed({"INY", "DEY"}) =>
        /\ reg_y = (Pre.reg_y + (IF LastOpcode = "INY" THEN 1 ELSE 255)) % 256
        /\ reg_a = Pre.reg_a /\ reg_x = Pre.reg_x /\ stack_ptr = Pre.stack_ptr
        /\ cpu_ram = Pre.cpu_ram
        /\ ZeroNegativeOf(status, reg_y)

(* C11, as stated: TXS copies X into the stack pointer and leaves every
   status flag as it was; TAX, TAY, TXA, TYA and TSX copy source to
   destination and recompute Zero/Negative from the copied value.  The TXS
   arm calls update_zero_negative, so this fails. *)
OnlyCellsChanged(cells) ==
    \A k \in (DOMAIN cpu_ram \cup DOMAIN Pre.cpu_ram) \ cells :
        RamAt(cpu_ram, k) = RamAt(Pre.cpu_ram, k)

C11_Transfers ==
    /\ Executed({"TXS"}) =>
        /\ stack_ptr = Pre.reg_x
        /\ status = Pre.status
        /\ reg_a = Pre.reg_a /\ reg_x = Pre.reg_x /\ reg_y = Pre.reg_y
        /\ cpu_ram = Pre.cpu_ram
    /\ Executed({"TAX"}) =>
        /\ reg_x = Pre.reg_a /\ ZeroNegativeOf(status, reg_x)
        /\ reg_a = Pre.reg_a /\ reg_y = Pre.reg_y /\ stack_ptr = Pre.stack_ptr
    /\ Executed({"TAY"}) =>
        /\ reg_y = Pre.reg_a /\ ZeroNegativeOf(status, reg_y)
        /\ reg_a = Pre.reg_a /\ reg_x = Pre.reg_x /\ stack_ptr = Pre.stack_ptr
    /\ Executed({"TXA"}) =>
        /\ reg_a = Pre.reg_x /\ ZeroNegativeOf(status, reg_a)
        /\ reg_x = Pre.reg_x /\ reg_y = Pre.reg_y /\ stack_ptr = Pre.stack_ptr
    /\ Executed({"TYA"}) =>
        /\ reg_a = Pre.reg_y /\ ZeroNegativeOf(status, reg_a)
        /\ reg_x = Pre.reg_x /\ reg_y = Pre.reg_y /\ stack_ptr = Pre.stack_ptr
    /\ Executed({"TSX"}) =>
        /\ reg_x = Pre.stack_ptr /\ ZeroNegativeOf(status, reg_x)
        /\ reg_a = Pre.reg_a /\ reg_y = Pre.reg_y /\ stack_ptr = Pre.stack_ptr

(* C12, as stated: in IndexedIndirect mode, with base = (byte at pc+1 + X)
   mod 256, the resolver returns the word whose low byte is the RAM byte at
   base and whose high byte is the RAM byte at (base+1) mod 256.  The code
   reads the high byte at base+1 computed in 16 bits, 0x0100 when base is
   0xFF, so this fails. *)
C12_IndexedIndirect ==
    (Decoded /\ LastMode = "IndexedIndirect") =>
        LET base == (MemByte(Pre.pc + 1) + Pre.reg_x) % 256 IN
        get_addr_mode_dest(Pre, LastMode) =
            Ok(RamAt(Pre.cpu_ram, base) + 256 * RamAt(Pre.cpu_ram, (base + 1) % 256))

(* C13, as stated: in IndirectIndexed mode, with z the byte at pc+1 and base
   the word at zero-page [z, (z+1) mod 256], the resolver returns
   (base + Y) mod 65536 and does not fail when base + Y exceeds 0xFFFF.  The
   code adds with `+`, which panics on overflow in a build that checks, so
   this fails there. *)
C13_IndirectIndexed ==
    (Decoded /\ LastMode = "IndirectIndexed") =>
        LET z == MemByte(Pre.pc + 1)
            base == RamAt(Pre.cpu_ram, z) + 256 * RamAt(Pre.cpu_ram, (z + 1) % 256)
        IN  get_addr_mode_dest(Pre, LastMode) = Ok((base + Pre.reg_y) % 65536)

(* C14: in ZeroPageX and ZeroPageY mode the resolver returns
   (byte at pc+1 + X or Y) mod 256, an address in 0x0000..0x00FF; loads read
   that cell and stores write it. *)
C14_ZeroPageIndexed ==
    (Decoded /\ LastMode \in {"ZeroPageX", "ZeroPageY"}) =>
        LET index == IF LastMode = "ZeroPageX" THEN Pre.reg_x ELSE Pre.reg_y
            addr == (MemByte(Pre.pc + 1) + index) % 256
        IN  /\ get_addr_mode_dest(Pre, LastMode) = Ok(addr)
            /\ get_addr_mode_dest(Pre, LastMode).val \in 0 .. \hFF
            /\ Executed({"LDA"}) => reg_a = RamAt(Pre.cpu_ram, addr)
            /\ Executed({"LDX"}) => reg_x = RamAt(Pre.cpu_ram, addr)
            /\ Executed({"LDY"}) => reg_y = RamAt(Pre.cpu_ram, addr)
            /\ Executed({"STA"}) =>
                    RamAt(cpu_ram, addr) = Pre.reg_a /\ OnlyCellsChanged({addr})
            /\ Executed({"STX"}) =>
                    RamAt(cpu_ram, addr) = Pre.reg_x /\ OnlyCellsChanged({addr})
            /\ Executed({"STY"}) =>
                    RamAt(cpu_ram, addr) = Pre.reg_y /\ OnlyCellsChanged({addr})

C14_Witness ==
    /\ Executed({"LDA"})
    /\ LastMode = "ZeroPageX"
    /\ MemByte(Pre.pc + 1) = \h80
    /\ Pre.reg_x = \hFF
    /\ get_addr_mode_dest(Pre, LastMode).val = \h7F
    /\ RamAt(Pre.cpu_ram, \h7F) = \h01
    /\ reg_a = \h01

(* C15: after n PHA of v1..vn and then PLAs, the values popped so far are
   the last ones pushed in reverse order, no step fails, and when all n are
   popped SP is the SP the pushes began with; n goes up to 256 and SP wraps
   between 0x00 and 0xFF on the way. *)
C15_Lifo ==
    last.kind = "lifo" =>
        /\ fault = "none"
        /\ \A k \in 1 .. Len(last.popped) :
                last.popped[k] = last.pushed[Len(last.pushed) + 1 - k]
        /\ stack_ptr = (last.start_sp + 512 - Len(last.pushed)
                            + Len(last.popped)) % 256
        /\ Len(last.popped) = Len(last.pushed) => stack_ptr = last.start_sp

C15_Witness ==
    /\ last.kind = "lifo"
    /\ last.start_sp = \h01
    /\ last.pattern = "distinct"
    /\ Len(last.pushed) = 256
    /\ Len(last.popped) = 256
    /\ last.popped[1] = PushValue("distinct", 256)
    /\ last.popped[256] = PushValue("distinct", 1)
    /\ Cardinality({last.pushed[i] : i \in 1 .. 256}) = 256
    /\ stack_ptr = \h01

(* C16: the stack accesses of PHA, PHP, PLA, PLP, JSR, RTS and RTI stay in
   0x0100..0x01FF: a push writes at 0x0100+SP and then SP = (SP-1) mod 256,
   a pop sets SP = (SP+1) mod 256 and then reads 0x0100+SP; no push or pop
   fails, whatever SP is, and no RAM cell outside the pushed ones changes. *)
StackAt(k) == STACK_START + ((Pre.stack_ptr + k) % 256)

C16_StackWindow ==
    /\ (Decoded /\ LastOpcode \in {"PHA", "PHP", "PLA", "PLP", "JSR", "RTS", "RTI"}) =>
        /\ push_stack(Pre, Pre.reg_a).fault = "none"
        /\ pop_stack(Pre).fault = "none"
        /\ push_stack_u16(Pre, Pre.pc).fault = "none"
        /\ pop_stack_u16(Pre).fault = "none"
        /\ \A k \in {0, 1, 2, 3, 255} : StackAt(k) \in \h0100 .. \h01FF
        /\ (LastOpcode \in {"PHA", "PHP", "PLA", "PLP"} /\ Pre.pc < \hFFFF)
                => fault = "none"
    /\ Executed({"PHA"}) =>
        /\ RamAt(cpu_ram, StackAt(0)) = Pre.reg_a
        /\ OnlyCellsChanged({StackAt(0)})
        /\ stack_ptr = (Pre.stack_ptr + 255) % 256
    /\ Executed({"PHP"}) =>
        /\ RamAt(cpu_ram, StackAt(0)) = Pre.status
        /\ OnlyCellsChanged({StackAt(0)})
        /\ stack_ptr = (Pre.stack_ptr + 255) % 256
    /\ Executed({"PLA"}) =>
        /\ reg_a = RamAt(Pre.cpu_ram, StackAt(1))
        /\ stack_ptr = (Pre.stack_ptr + 1) % 256
        /\ cpu_ram = Pre.cpu_ram
    /\ Executed({"PLP"}) =>
        /\ status = RamAt(Pre.cpu_ram, StackAt(1))
        /\ stack_ptr = (Pre.stack_ptr + 1) % 256
        /\ cpu_ram = Pre.cpu_ram
    /\ Executed({"JSR"}) =>
        /\ OnlyCellsChanged({StackAt(0), StackAt(255)})
        /\ stack_ptr = (Pre.stack_ptr + 254) % 256
    /\ Executed({"RTS"}) =>
        /\ stack_ptr = (Pre.stack_ptr + 2) % 256
        /\ cpu_ram = Pre.cpu_ram
    /\ Executed({"RTI"}) =>
        /\ status = RamAt(Pre.cpu_ram, StackAt(1))
        /\ stack_ptr = (Pre.stack_ptr + 3) % 256
        /\ cpu_ram = Pre.cpu_ram

C16_Witness ==
    /\ Executed({"PHA"})
    /\ Pre.stack_ptr = 0
    /\ Pre.reg_a = \h50
    /\ RamAt(Pre.cpu_ram, \h0100) = \h34
    /\ RamAt(cpu_ram, \h0100) = \h50
    /\ stack_ptr = \hFF

(* C17: after a completed step of an instruction that recomputes
   Zero/Negative, Zero is set exactly when the byte written to the
   destination is 0 and Negative exactly when its bit 7 is 1. *)
ShiftNames == {"ASL", "LSR", "ROL", "ROR"}

ZeroNegativeNames ==
    {"LDA", "LDX", "LDY", "AND", "ORA", "EOR", "ADC", "SBC", "INC", "DEC",
     "INX", "INY", "DEX", "DEY", "PLA", "TAX", "TAY", "TXA", "TYA", "TSX"}
        \cup ShiftNames

MemoryDestination ==
    \/ LastOpcode \in {"INC", "DEC"}
    \/ LastOpcode \in ShiftNames /\ LastMode # "Accumulator"

(* the byte now in the destination of the instruction *)
ResultWritten ==
    IF MemoryDestination THEN read(Self, LastAddr).val
    ELSE IF LastOpcode \in {"LDX", "INX", "DEX", "TAX", "TSX"} THEN reg_x
    ELSE IF LastOpcode \in {"LDY", "INY", "DEY", "TAY"} THEN reg_y
    ELSE reg_a

C17_ZeroNegativeLaw ==
    (Executed(ZeroNegativeNames) /\ (MemoryDestination => LastAddr <= \h1FFF)) =>
        /\ FlagOf(status, ZERO) = (ResultWritten = 0)
        /\ FlagOf(status, NEGATIVE) = (Bit7(ResultWritten) = 1)

C17_Witness ==
    /\ Executed({"INC"})
    /\ MemByte(LastAddr) = \hFF
    /\ ResultWritten = 0
    /\ FlagOf(status, ZERO)
    /\ ~FlagOf(status, NEGATIVE)
    /\ FlagOf(Pre.status, ZERO) = FALSE

(* C18: a completed CMP, CPX or CPY of register R (A, X, Y) with operand M
   gives Carry = (R >= M), Zero = (R = M), Negative = bit 7 of
   (R - M) mod 256, and leaves the registers, Overflow and RAM as they
   were. *)
C18_Compare ==
    Executed({"CMP", "CPX", "CPY"}) =>
        LET R == CASE LastOpcode = "CMP" -> Pre.reg_a
                   [] LastOpcode = "CPX" -> Pre.reg_x
                   [] LastOpcode = "CPY" -> Pre.reg_y
            M == LastOperand
        IN  /\ FlagOf(status, CARRY) = (R >= M)
            /\ FlagOf(status, ZERO) = (R = M)
            /\ FlagOf(status, NEGATIVE) = (Bit7((R - M + 256) % 256) = 1)
            /\ FlagOf(status, OVERFLOW) = FlagOf(Pre.status, OVERFLOW)
            /\ RegistersKept
            /\ cpu_ram = Pre.cpu_ram

C18_Witness ==
    /\ Executed({"CPX"})
    /\ Pre.reg_x = \h10
    /\ LastOperand = \h80
    /\ ~FlagOf(status, CARRY)
    /\ ~FlagOf(status, ZERO)
    /\ FlagOf(status, NEGATIVE)
    /\ FlagOf(status, OVERFLOW)
    /\ reg_x = \h10

(* C19: a completed ASL, LSR, ROL or ROR of the value v (A in Accumulator
   mode, else the addressed cell) with carry C before: ASL leaves
   (2v) mod 256, LSR v div 2, ROL (2v) mod 256 + C, ROR v div 2 + 128*C;
   Carry is bit 7 of v for ASL and ROL and bit 0 of v for LSR and ROR.  A
   memory mode writes the result to the same cell and leaves A as it was. *)
C19_Shifts ==
    (Executed(ShiftNames) /\ (MemoryDestination => LastAddr <= \h1FFF)) =>
        LET v == IF MemoryDestination THEN MemByte(LastAddr) ELSE Pre.reg_a
            expected ==
                CASE LastOpcode = "ASL" -> (2 * v) % 256
                  [] LastOpcode = "LSR" -> v \div 2
                  [] LastOpcode = "ROL" -> ((2 * v) % 256) + CarryIn
                  [] LastOpcode = "ROR" -> (v \div 2) + 128 * CarryIn
            out == IF LastOpcode \in {"ASL", "ROL"} THEN Bit7(v) ELSE v % 2
        IN  /\ ResultWritten = expected
            /\ FlagOf(status, CARRY) = (out = 1)
            /\ reg_x = Pre.reg_x /\ reg_y = Pre.reg_y /\ stack_ptr = Pre.stack_ptr
            /\ MemoryDestination =>
                    /\ reg_a = Pre.reg_a
                    /\ OnlyCellsChanged({LastAddr % RAM_SIZE})
            /\ ~MemoryDestination => cpu_ram = Pre.cpu_ram

C19_Witness ==
    /\ Executed({"ROR"})
    /\ LastMode = "ZeroPage"
    /\ MemByte(LastAddr) = \h01
    /\ CarryIn = 1
    /\ read(Self, LastAddr).val = \h80
    /\ FlagOf(status, CARRY)
    /\ reg_a = Pre.reg_a

(* C20: the RAM is mirrored four times.  After the host's write(a, v) with a
   in 0x0000..0x1FFF, a read of each of the four addresses congruent to a
   modulo 0x0800 returns v, every read of 0x0000..0x1FFF returns
   RAM[address AND 0x07FF], and no other cell has changed. *)
MirrorProbes ==
    { \h0000, \h0001, \h07FF, \h0800, \h0801, \h0FFF, \h1000, \h1001, \h17FF,
      \h1801, \h1FFF }

C20_RamMirror ==
    last.kind = "write" =>
        LET cell == last.addr % RAM_SIZE IN
        /\ fault = "none"
        /\ \A m \in 0 .. 3 : read(Self, cell + RAM_SIZE * m) = Ok(last.val)
        /\ \A p \in MirrorProbes \cup {last.addr} :
                /\ read(Self, p) = Ok(RamAt(cpu_ram, p % RAM_SIZE))
                /\ p % RAM_SIZE # cell => read(Self, p) = read(Pre, p)
        /\ DOMAIN cpu_ram \subseteq 0 .. RAM_SIZE - 1
        /\ OnlyCellsChanged({cell})

C20_Witness ==
    /\ last.kind = "write"
    /\ last.addr = \h1801
    /\ last.val = \h5A
    /\ read(Pre, \h0001) = Ok(\h03)
    /\ read(Self, \h0001) = Ok(\h5A)
    /\ read(Self, \h0801) = Ok(\h5A)
    /\ read(Self, \h1001) = Ok(\h5A)

(* C21: a bus write to an address in 0x8000..0xFFFF is fatal, from the host
   and from a step that stores there, and leaves the Cpu and the RAM as they
   were; no step, bus write or bulk load changes the PRG ROM, which is the
   image the bus was built with. *)
StoreNames == {"STA", "STX", "STY", "INC", "DEC"}

(* the last step() resolved an address that its instruction then accesses *)
Resolved ==
    /\ Decoded
    /\ LastMode \notin {"Implicit", "Accumulator", "Indirect"}
    /\ LastOpcode \notin {"JMP", "JSR"}
    /\ get_addr_mode_dest(Pre, LastMode).fault = "none"

StoresTo(addrs) ==
    /\ Resolved
    /\ LastOpcode \in StoreNames \cup ShiftNames
    /\ LastAddr \in addrs
    /\ read(Pre, LastAddr).fault = "none"

RomAddrs == \h8000 .. \hFFFF

RomWriteFatal ==
    /\ prg_rom \in RomImages
    /\ \A a \in OutsideAddrs \cap RomAddrs :
            write(cpu_ram, a, \h5A) = Err("Attempted to write into PRG rom")
    /\ (last.kind = "write_outside" /\ last.addr \in RomAddrs) =>
            /\ fault = "Attempted to write into PRG rom"
            /\ Self = Pre
    /\ StoresTo(RomAddrs) =>
            /\ fault = "Attempted to write into PRG rom"
            /\ Self = Pre

C21_RomImmutable == [] RomWriteFatal /\ [][prg_rom' = prg_rom]_vars

C21_Witness ==
    /\ Decoded
    /\ LastOpcode = "STA"
    /\ LastAddr = \h8005
    /\ fault = "Attempted to write into PRG rom"
    /\ Self = Pre
    /\ read(Self, \h8005) = Ok(PrgAt(prg_rom, 5))

(* C22: read(a) for a in 0x8000..0xFFFF returns PRG[a - 0x8000] of a
   32 KiB image and PRG[(a - 0x8000) mod 0x4000] of a 16 KiB image; with
   the 16 KiB image read(a) = read(a + 0x4000) for a in 0x8000..0xBFFF and
   the pc of the fresh Cpu is the word at PRG offsets 0x3FFC/0x3FFD. *)
C22_PrgRead ==
    last.kind = "new" =>
        /\ \A a \in RomAddrs :
                read(Self, a) =
                    Ok(PrgAt(prg_rom, IF prg_rom.len = \h4000
                                      THEN (a - \h8000) % \h4000 ELSE a - \h8000))
        /\ prg_rom.len = \h4000 =>
            /\ \A a \in \h8000 .. \hBFFF : read(Self, a) = read(Self, a + \h4000)
            /\ pc = PrgAt(prg_rom, \h3FFC) + 256 * PrgAt(prg_rom, \h3FFD)

C22_Witness ==
    /\ last.kind = "new"
    /\ prg_rom.len = \h4000
    /\ read(Self, \h8000) = Ok(\hA9)
    /\ read(Self, \hC000) = Ok(\hA9)
    /\ read(Self, \hFFFD) = Ok(\h80)
    /\ pc = \h8000

(* C23: an access to an unmapped address (0x4000..0x7FFF) does not fail: a
   read returns 0, a write leaves the RAM, the ROM and the Cpu as they were,
   and a read after a write there returns 0 still. *)
UnmappedAddrs == \h4000 .. \h7FFF

C23_Unmapped ==
    /\ last.kind = "new" => \A a \in UnmappedAddrs : read(Self, a) = Ok(0)
    /\ \A a \in OutsideAddrs \cap UnmappedAddrs :
            /\ read(Self, a) = Ok(0)
            /\ write(cpu_ram, a, \h5A) = Ok(cpu_ram)
    /\ (last.kind = "write_outside" /\ last.addr \in UnmappedAddrs) =>
            /\ fault = "none"
            /\ Self = Pre
            /\ read(Self, last.addr) = Ok(0)
    /\ StoresTo(UnmappedAddrs) =>
            /\ fault \in {"none", "attempt to add with overflow"}
            /\ cpu_ram = Pre.cpu_ram
    /\ (Resolved /\ LastAddr \in UnmappedAddrs /\ Executed({"LDA"})) => reg_a = 0

C23_Witness ==
    /\ last.kind = "write_outside"
    /\ last.addr = \h4017
    /\ last.val = \h5A
    /\ fault = "none"
    /\ Self = Pre
    /\ read(Self, \h4017) = Ok(0)

(* C24: a bus read or write at an address in 0x2000..0x3FFF fails with the
   panic of todo!("PPU"), also when step() issues it as its opcode fetch, as
   the access to its operand or as its store; the Cpu and the RAM stay as
   they were. *)
PpuAddrs == \h2000 .. \h3FFF

C24_PpuWindow ==
    /\ \A a \in OutsideAddrs \cap PpuAddrs :
            /\ read(Self, a) = Err("not yet implemented: PPU")
            /\ write(cpu_ram, a, \h5A) = Err("not yet implemented: PPU")
    /\ (last.kind = "write_outside" /\ last.addr \in PpuAddrs) =>
            /\ fault = "not yet implemented: PPU"
            /\ Self = Pre
    /\ (Stepped /\ Pre.pc \in PpuAddrs) =>
            /\ fault = "not yet implemented: PPU"
            /\ Self = Pre
    /\ (Resolved /\ LastAddr \in PpuAddrs) =>
            /\ fault = "not yet implemented: PPU"
            /\ Self = Pre

C24_Witness ==
    /\ Decoded
    /\ LastOpcode = "STA"
    /\ LastMode = "Absolute"
    /\ LastAddr = \h2000
    /\ fault = "not yet implemented: PPU"
    /\ Self = Pre

---------------------------------------------------------------------------
(* C25: reset(), from any Cpu state, clears A, X and Y, sets the stack
   pointer to 0xFD, the status to InterruptDisable and the always-on bit
   alone (0x24), the pc to the little-endian word at 0xFFFC, and leaves the
   memory as it was; a second reset changes nothing. *)
C25_Reset ==
    last.kind = "reset" =>
        /\ fault = "none"
        /\ reg_a = 0 /\ reg_x = 0 /\ reg_y = 0
        /\ stack_ptr = \hFD
        /\ status = \h24
        /\ ~ \E f \in {BREAK, CARRY, ZERO, NEGATIVE, OVERFLOW, DECIMAL} :
               FlagOf(status, f)
        /\ pc = MemByte(\hFFFC) + 256 * MemByte(\hFFFD)
        /\ cpu_ram = Pre.cpu_ram
        /\ reset(Self) = Ok(Self)

(* a reset of a Cpu whose registers, stack pointer, status, pc and RAM all
   differ from the reset values *)
C25_Witness ==
    /\ last.kind = "reset"
    /\ fault = "none"
    /\ Pre.reg_a # 0 /\ Pre.reg_x # 0 /\ Pre.reg_y # 0
    /\ Pre.stack_ptr # \hFD
    /\ Pre.status # \h24
    /\ Pre.pc # pc
    /\ Pre.cpu_ram # <<>>
    /\ reg_a = 0 /\ stack_ptr = \hFD /\ status = \h24

---------------------------------------------------------------------------
(* C26: in run_with_callback the callback and the step alternate, the
   callback first; the loop leaves only from the test at its head, exactly
   when Break is set there, so never between a callback and its step; with
   Break set on entry neither runs; a Break the callback sets still lets the
   step that follows it run. *)
C26_Alternation ==
    InRun =>
        /\ (Len(last.events) = 2 => last.events[1] # last.events[2])
        /\ (Len(last.events) >= 1 /\ last.callbacks <= 1 /\ last.steps = 0 =>
                last.events = <<"callback">>)
        /\ (last.callbacks < MaxCount =>
                /\ last.callbacks - last.steps \in {0, 1}
                /\ (last.callbacks - last.steps = 1 <=> last.at = "step"))
        /\ (last.at = "exit" <=> (last.kind = "test" /\ contains(status, BREAK)))
        /\ (last.at = "exit" =>
                /\ last.callbacks = last.steps
                /\ (last.steps > 0 => last.events[Len(last.events)] = "step"))
        /\ (last.entry_break => last.callbacks = 0 /\ last.steps = 0
                                /\ last.at \in {"head", "exit"})
        /\ (last.kind = "callback" => last.at = "step")
        /\ (last.kind = "step" /\ fault = "none" => last.at = "head")

(* the callback set Break before the first step, INX ran all the same, and
   the loop left at the next test: one callback, one step *)
C26_Witness ==
    /\ InRun
    /\ last.at = "exit"
    /\ last.callback = "set_break"
    /\ ~ last.entry_break
    /\ last.callbacks = 1 /\ last.steps = 1
    /\ last.events = <<"callback", "step">>
    /\ reg_x = 1
    /\ pc = \h0601

---------------------------------------------------------------------------
(* C27: a step executing BRK sets Break and nothing else: the pc stays on
   the BRK byte, A, X, Y, the stack pointer, the other status bits and the
   memory are kept; in the run loop the test that follows leaves the loop,
   and nothing runs after it. *)
LastWasBrk == Stepped /\ Executed({"BRK"})

C27_BrkFrame ==
    LastWasBrk =>
        /\ status = insert(Pre.status, BREAK)
        /\ contains(status, BREAK)
        /\ pc = Pre.pc
        /\ RegistersKept
        /\ cpu_ram = Pre.cpu_ram
        /\ (InRun => last.at = "head")

C27_Brk ==
    /\ [] C27_BrkFrame
    /\ [][ /\ (LastWasBrk /\ InRun =>
                  last'.kind = "test" /\ last'.at = "exit" /\ cpu_vars' = cpu_vars)
           /\ ~ (InRun /\ last.at = "exit" /\ last' # last) ]_vars

(* INX INX BRK run by the loop with a callback that does nothing: three
   steps, the last one BRK, and the loop has left *)
C27_Witness ==
    /\ InRun
    /\ last.at = "exit"
    /\ last.callback = "none"
    /\ last.steps = 3 /\ last.callbacks = 3
    /\ read(Pre, Pre.pc) = Ok(\h00)
    /\ Pre.pc = \h0602 /\ pc = \h0602
    /\ reg_x = 2
    /\ ~ contains(Pre.status, BREAK) /\ contains(status, BREAK)

---------------------------------------------------------------------------
(* C28: the 16 KiB image A9 05 8D 00 02 4C 00 80 with reset vector 0x8000,
   run from reset: after 3 steps A = 5, RAM[0x0200] = 5 and pc = 0x8000;
   the pc goes round 0x8000, 0x8002, 0x8005 with period 3 and, from the
   second step on, the rest of the Cpu no longer changes; Break is never set
   and the run loop never leaves, it jumps back again and again. *)
InLoopRun ==
    /\ InRun
    /\ prg_rom.len = \h4000
    /\ last.callback = "none"
    /\ ~ last.entry_break

LoopSucc(p) ==
    CASE p = \h8000 -> \h8002
      [] p = \h8002 -> \h8005
      [] p = \h8005 -> \h8000

C28_Safety ==
    InLoopRun =>
        /\ fault = "none"
        /\ last.at \notin {"exit", "panicked"}
        /\ ~ contains(status, BREAK)
        /\ pc \in {\h8000, \h8002, \h8005}
        /\ (Stepped => pc = LoopSucc(Pre.pc))
        /\ (last.steps < MaxCount =>
                pc = CASE last.steps % 3 = 0 -> \h8000
                       [] last.steps % 3 = 1 -> \h8002
                       [] last.steps % 3 = 2 -> \h8005)
        /\ (last.steps = 3 =>
                reg_a = \h05 /\ RamAt(cpu_ram, \h0200) = \h05 /\ pc = \h8000)
        /\ (last.steps >= 2 =>
                /\ reg_a = \h05 /\ reg_x = 0 /\ reg_y = 0
                /\ stack_ptr = STACK_RESET
                /\ status = \h24
                /\ RamAt(cpu_ram, \h0200) = \h05)

JumpedBack == InLoopRun /\ Stepped /\ Pre.pc = \h8005 /\ pc = \h8000

C28_Loop == [] C28_Safety /\ (InLoopRun ~> JumpedBack)

(* the second time round: the sixth step has jumped back to 0x8000 *)
C28_Witness ==
    /\ JumpedBack
    /\ last.steps = 6
    /\ reg_a = \h05
    /\ RamAt(cpu_ram, \h0200) = \h05

---------------------------------------------------------------------------
(* C29: the pc arithmetic of step() wraps modulo 65536: no step whose
   instruction reaches past 0xFFFF stops on an addition overflow, and a
   one-byte instruction executed at pc = 0xFFFF leaves pc = 0x0000. *)
PastTop == Decoded /\ Pre.pc + LastSize > \hFFFF

C29_PcWraps ==
    /\ (PastTop /\ LastMode # "IndirectIndexed" =>
            fault # "attempt to add with overflow")
    /\ (Decoded /\ Pre.pc = \hFFFF /\ LastSize = 1
        /\ LastOpcode \notin PcSetters =>
            fault = "none" /\ pc = \h0000)

---------------------------------------------------------------------------
(* C30: Rom::new returns a Rom or a format error for every byte sequence;
   it never panics. *)
C30_NeverCrashes == last.kind = "rom" => last.result.fault = "none"

---------------------------------------------------------------------------
(* C31: an RTS executed with the stack pointer and the two stack bytes as an
   earlier JSR at P left them leaves pc = (P + 3) mod 65536 and the stack
   pointer that JSR found; a JSR then an RTS applied at the last bytes of
   the address space wrap in the same way. *)
FrameIntact(f) ==
    /\ Pre.stack_ptr = f.sp_after
    /\ RamAt(Pre.cpu_ram, STACK_START + f.sp_before) = f.high
    /\ RamAt(Pre.cpu_ram, STACK_START + ((f.sp_before + 255) % 256)) = f.low

(* pc and stack pointer after JSR then RTS, the JSR taken to be at P *)
RoundTrip(P) ==
    Bind(op_JSR([Self EXCEPT !.pc = P], "Absolute"), LAMBDA j:
    Bind(op_RTS(j.c), LAMBDA r:
    Bind(advance_pc(r.c, 1), LAMBDA c1: Ok(<<c1.pc, c1.stack_ptr>>))))

C31_RoundTrip ==
    /\ ("calls" \in DOMAIN last /\ Executed({"RTS"})) =>
            \A i \in 1 .. Len(last.calls) :
                FrameIntact(last.calls[i]) =>
                    /\ pc = (last.calls[i].at + 3) % 65536
                    /\ stack_ptr = last.calls[i].sp_before
    /\ \A P \in {\h07FD, \hFFFC, \hFFFD} :
            RoundTrip(P).fault = "none" =>
                RoundTrip(P).val = <<(P + 3) % 65536, stack_ptr>>

(* the nested call: the inner RTS has returned into the subroutine, the
   outer RTS to the byte after the JSR at 0x0600, the stack pointer 0x00
   found again after wrapping through 0xFF *)
C31_Witness ==
    /\ "calls" \in DOMAIN last
    /\ Executed({"RTS"})
    /\ Len(last.calls) = 2
    /\ FrameIntact(last.calls[1])
    /\ last.calls[1].at = \h0600
    /\ last.calls[1].sp_before = \h00
    /\ last.calls[1].sp_after = \hFE
    /\ last.calls[1].high = \h06 /\ last.calls[1].low = \h02
    /\ pc = \h0603
    /\ stack_ptr = \h00
    /\ ~ overflow_checks
    /\ RoundTrip(\hFFFD) = Ok(<<\h0000, \h00>>)

---------------------------------------------------------------------------
(* C32: run from reset with a callback that leaves the status alone, Break
   goes from clear to set only in a step that executes BRK, and the loop
   leaves only after a BRK.  PLP and RTI load the status byte from the stack
   with its bit 4, so this fails. *)
C32_BreakOnlyByBrk ==
    (InRun /\ last.callback = "none" /\ ~ last.entry_break) =>
        /\ (Completed /\ Decoded
            /\ ~ contains(Pre.status, BREAK) /\ contains(status, BREAK)) =>
                LastOpcode = "BRK"
        /\ last.at = "exit" => decode(LastByte) = decode(\h00)

---------------------------------------------------------------------------
(* C33: the always-on bit (0x20) of the status is set in every state reached
   from reset by steps.  PLP and RTI load the status byte from the stack as
   it is, so this fails. *)
C33_AlwaysOn == InRun => contains(status, ALWAYSON)

---------------------------------------------------------------------------
(* C34: Cpu::load_to(start, program) with start + len <= 0x0800 completes,
   read(start + i) is then program[i] for every i, and a reset that follows
   gives pc = 0x8000.  Its write of the reset vector is a write into the
   PRG ROM, so this fails. *)
C34_LoadTo ==
    last.kind = "load_to" =>
        /\ fault = "none"
        /\ \A i \in 1 .. Len(last.program) :
                read(Self, last.start + i - 1) = Ok(last.program[i])
        /\ reset(Self).fault = "none"
        /\ reset(Self).val.pc = \h8000

---------------------------------------------------------------------------
(* C35: no step stops on the resolver's refusal of Implicit, Accumulator or
   Indirect mode: for every opcode byte that decodes, the arm step() takes
   does not hand such a mode to get_addr_mode_dest, and the table pairs
   those modes only with instructions whose arm does without it. *)
ResolverMisuse ==
    { "Implicit should not need a memory load",
      "Accumulator should not need a memory load",
      "Should be implemented outside" }

(* instructions whose arm always resolves the decoded mode *)
ResolverNames ==
    { "ADC", "AND", "BIT", "CMP", "CPX", "CPY", "DEC", "EOR", "INC", "LDA",
      "LDX", "LDY", "ORA", "SBC", "STA", "STX", "STY" } \cup BranchNames

C35_ResolverSafe ==
    /\ fault \notin ResolverMisuse
    /\ last.kind = "new" =>
        \A b \in Byte :
            decode(b).fault = "none" =>
                LET d == decode(b).val IN
                /\ execute(Self, d[1], d[2]).fault \notin ResolverMisuse
                /\ d[2] \in {"Implicit", "Accumulator", "Indirect"} =>
                    /\ d[1] \notin ResolverNames
                    /\ d[2] = "Accumulator" <=> d[1] \in ShiftNames
                    /\ d[2] = "Indirect" <=> d[1] = "JMP"

(* ASL A has been executed at 0x0600: A = 0x50 doubled, no address resolved *)
C35_Witness ==
    /\ Completed /\ Decoded
    /\ LastMode = "Accumulator"
    /\ LastOpcode = "ASL"
    /\ Pre.reg_a = \h50
    /\ reg_a = \hA0
    /\ pc = \h0601

---------------------------------------------------------------------------
(* C36: ADC sets Overflow exactly when the signed sum of A, the operand and
   the carry-in is outside -128..127, and SBC exactly when the signed
   A - M - (1 - C) is; for every A, every operand and both carries. *)
SignedFits(v) == -128 <= v /\ v <= 127

AdcSigned(A, M, cin) == Signed8(A) + Signed8(M) + cin
SbcSigned(A, M, cin) == Signed8(A) - Signed8(M) - (1 - cin)

C36_Overflow ==
    /\ Executed({"ADC"}) =>
        /\ FlagOf(status, OVERFLOW) =
                ~ SignedFits(AdcSigned(Pre.reg_a, LastOperand, CarryIn))
        /\ LastOperand = 0 =>
            \A m \in Byte :
                FlagOf(add_a(Pre, m).status, OVERFLOW) =
                    ~ SignedFits(AdcSigned(Pre.reg_a, m, CarryIn))
    /\ Executed({"SBC"}) =>
        /\ FlagOf(status, OVERFLOW) =
                ~ SignedFits(SbcSigned(Pre.reg_a, LastOperand, CarryIn))
        /\ LastOperand = 0 =>
            \A m \in Byte :
                FlagOf(add_a(Pre, Not8(m)).status, OVERFLOW) =
                    ~ SignedFits(SbcSigned(Pre.reg_a, m, CarryIn))

(* 0x7F + 0x00 + carry: 127 + 1 = 128 does not fit, the result is 0x80 and
   Overflow is set though it was clear and Carry stays clear *)
C36_Witness ==
    /\ Executed({"ADC"})
    /\ Pre.reg_a = \h7F
    /\ LastOperand = \h00
    /\ CarryIn = 1
    /\ ~ FlagOf(Pre.status, OVERFLOW)
    /\ reg_a = \h80
    /\ FlagOf(status, OVERFLOW)
    /\ ~ FlagOf(status, CARRY)

---------------------------------------------------------------------------
(* C37: a completed step changes RAM only if it executes STA, STX, STY, INC,
   DEC, a shift or rotate of a memory operand, PHA, PHP or JSR, and then at
   most one byte of it (two for JSR); every other instruction leaves the
   RAM as it was; STA, STX and STY leave the status as it was. *)
ChangedCells ==
    { k \in DOMAIN cpu_ram \cup DOMAIN Pre.cpu_ram :
        RamAt(cpu_ram, k) # RamAt(Pre.cpu_ram, k) }

WritesRam ==
    \/ LastOpcode \in {"STA", "STX", "STY", "INC", "DEC", "PHA", "PHP", "JSR"}
    \/ LastOpcode \in ShiftNames /\ LastMode # "Accumulator"

C37_RamFrame ==
    (Completed /\ Decoded) =>
        /\ ChangedCells \subseteq 0 .. RAM_SIZE - 1
        /\ ~ WritesRam => cpu_ram = Pre.cpu_ram
        /\ (WritesRam /\ LastOpcode # "JSR") => Cardinality(ChangedCells) <= 1
        /\ LastOpcode = "JSR" => Cardinality(ChangedCells) <= 2
        /\ LastOpcode \in {"STA", "STX", "STY"} => status = Pre.status

(* JSR at 0x0600 with the stack pointer 0xFD: the two bytes 0x06, 0x02 are
   written at 0x01FD and 0x01FC and no other *)
C37_Witness ==
    /\ Executed({"JSR"})
    /\ Pre.pc = \h0600
    /\ Pre.stack_ptr = \hFD
    /\ ChangedCells = {\h01FC, \h01FD}
    /\ RamAt(cpu_ram, \h01FD) = \h06
    /\ RamAt(cpu_ram, \h01FC) = \h02
    /\ status = Pre.status

---------------------------------------------------------------------------
(* C38: ROL then ROR, and ROR then ROL, on the accumulator or on one memory
   cell give back the value and the Carry they began with, for every value
   and both carries; each ROL rotates the nine bits (Carry, value) left by
   one, each ROR right by one, and nine ROLs in a row give back the nine
   bits they began with. *)
RotatedOf(c) ==
    IF last.on_cell THEN RamAt(c.cpu_ram, RotatedCell) ELSE c.reg_a

(* Carry and value as one number of nine bits *)
NineBits(c) == 256 * (IF FlagOf(c.status, CARRY) THEN 1 ELSE 0) + RotatedOf(c)

RotateLeft9(q) == ((2 * q) % 512) + (q \div 256)

C38_Rotations ==
    ("first" \in DOMAIN last /\ Stepped) =>
        /\ fault = "none"
        /\ Executed({"ROL"}) => NineBits(Self) = RotateLeft9(NineBits(Pre))
        /\ Executed({"ROR"}) => NineBits(Pre) = RotateLeft9(NineBits(Self))
        /\ (last.count = 2 /\ last.steps = 2) =>
                /\ RotatedOf(Self) = RotatedOf(last.first)
                /\ FlagOf(status, CARRY) = FlagOf(last.first.status, CARRY)
                /\ last.on_cell => cpu_ram = last.first.cpu_ram
        /\ (last.count > 2 /\ last.steps = 9) =>
                NineBits(Self) = NineBits(last.first)

(* ROL then ROR of the cell holding 0x80 with Carry clear: the ROL left
   0x00 with Carry set, the ROR has put back 0x80 and cleared Carry *)
C38_Witness ==
    /\ "first" \in DOMAIN last
    /\ Executed({"ROR"})
    /\ last.on_cell
    /\ last.steps = 2
    /\ RotatedOf(last.first) = \h80
    /\ ~ FlagOf(last.first.status, CARRY)
    /\ RotatedOf(Pre) = \h00
    /\ FlagOf(Pre.status, CARRY)
    /\ RamAt(cpu_ram, RotatedCell) = \h80
    /\ ~ FlagOf(status, CARRY)

====
